---- MODULE Spec2Model ----
(***************************************************************************)
(* A model of the key-value store of kvstore_server.py (single node: WAL,  *)
(* checkpoint, recovery, request dispatch, shutdown) and of the cluster    *)
(* coordinator of kvstore_cluster.py (roles, terms, votes, write gating).  *)
(*                                                                         *)
(* Files are sequences of cells.  A cell of a length prefix is a byte      *)
(* (0..255); a cell of a pickled payload is one token of the pickle.       *)
(***************************************************************************)
EXTENDS Integers, Sequences, FiniteSets, TLC

VARIABLES
    \* ---- single node (kvstore_server.py) ----
    proc,        \* "up" | "down" | "failed" (startup raised, the process exited)
    store,       \* KVStore.store: a dict, here a function whose domain is the keys present
    walFile,     \* the bytes of wal.log on disk
    dataFile,    \* data.pkl on disk: [exists, bytes]
    lock,        \* KVStore._lock: the set of threads holding it ({} or one thread)
    running,     \* KVStoreServer.running
    walOpen,     \* WriteAheadLog.wal_file is an open file object
    pc,          \* position of each client connection thread
    req,         \* the request each connection thread is processing
    resp,        \* the response it has computed and not yet sent
    idx,         \* bulk_set: index of the next item to apply
    tpc,         \* positions of the checkpoint thread and of the main thread
    socket,      \* the bytes on their way to each connection thread, segment by segment
    \* ---- history of the single node (not program state) ----
    acked,       \* the store the mutations made so far give, applied in lock order
    lost,        \* keys a mutation touched whose OK reply was never sent
    nreq,        \* number of requests received so far
    stops,       \* number of kills and shutdown signals so far
    shutdown,    \* how the last stop began: "no" | "quiet" | "busy"
    \* ---- cluster of three nodes (kvstore_cluster.py) ----
    role,        \* ClusterNode.role of each node; CRASHED once its process was killed
    term,        \* ClusterNode.term
    voted_for,   \* ClusterNode.voted_for
    primary_node,\* ClusterNode.primary_node: the node whose address is held, or None
    peers,       \* ClusterNode.peers: the nodes of the --peers argument, in order
    expired,     \* time.time() - last_heartbeat > heartbeat_timeout
    now,         \* time.time(), in seconds since the cluster started
    last_heartbeat, \* ClusterNode.last_heartbeat
    kvstore,     \* ClusterNode.kvstore: [store, wal], the WAL as its list of records
    thr,         \* heartbeat thread and client connection thread of each node
    rpc,         \* how far the peer's handler is with the call of each of these threads
    nclient,     \* number of client requests the cluster has received
    nelect,      \* number of elections started in the cluster
    nbeats       \* number of heartbeat rounds started in the cluster

nodeVars == <<proc, store, walFile, dataFile, lock, running, walOpen,
              pc, req, resp, idx, tpc, socket,
              acked, lost, nreq, stops, shutdown>>

clusterVars == <<role, term, voted_for, primary_node, peers, expired, now, last_heartbeat,
                 kvstore, thr, rpc,
                 nclient, nelect, nbeats>>

vars == <<nodeVars, clusterVars>>

----------------------------------------------------------------------------
(* Bounds of the model *)

MaxRequests == 2
MaxStops == 1
MaxReplayOps == 2
MaxElections == 1
MaxHeartbeats == 1
MaxClusterRequests == 1
MaxFailoverElections == 4
MaxVoteElections == 3
MaxReplicatedRequests == 2
MaxTicks == 7

----------------------------------------------------------------------------
(* Data model *)

Keys == {"a", "b"}
KeyOrder == <<"a", "b">>
\* Python's None, which is also the JSON null a client may send as a value.
None == "None"
Values == {"v1", None}

\* Two client connections, each served by its own thread.
Clients == {"c1", "c2"}
\* The periodic checkpoint thread and the main thread (which runs the signal handler).
CK == "checkpoint_thread"
MAIN == "main"

Min(a, b) == IF a < b THEN a ELSE b

EmptyStore == [k \in {} |-> None]
Put(s, k, v) == [x \in (DOMAIN s) \cup {k} |-> IF x = k THEN v ELSE s[x]]
Pop(s, k) == [x \in (DOMAIN s) \ {k} |-> s[x]]
\* dict.get(key): None for a key that is absent
DictGet(s, k) == IF k \in DOMAIN s THEN s[k] ELSE None

Stores == UNION {[D -> Values] : D \in SUBSET Keys}

----------------------------------------------------------------------------
(* Requests and WAL records *)

NoItems == << >>
SetReq(k, v) == [op |-> "SET", key |-> k, value |-> v, items |-> NoItems]
GetReq(k) == [op |-> "GET", key |-> k, value |-> None, items |-> NoItems]
DeleteReq(k) == [op |-> "DELETE", key |-> k, value |-> None, items |-> NoItems]
BulkReq(items) == [op |-> "BULK_SET", key |-> None, value |-> None, items |-> items]
NoReq == [op |-> "none", key |-> None, value |-> None, items |-> NoItems]

\* A batch writes one value to every key (as the isolation test does), or is empty.
BulkInputs == {NoItems} \cup {[i \in 1..Len(KeyOrder) |-> <<KeyOrder[i], v>>] : v \in Values}

GetRequests == {GetReq(k) : k \in Keys}
BulkRequests == {BulkReq(items) : items \in BulkInputs}
Requests == {SetReq(k, v) : k \in Keys, v \in Values} \cup GetRequests
              \cup {DeleteReq(k) : k \in Keys} \cup BulkRequests

IsMutation(r) == r.op \in {"SET", "DELETE", "BULK_SET"}

\* requests with an operation string that names no store operation: one that
\* names nothing, and the one cluster-message name that no node ever sends
OtherReq(o) == [op |-> o, key |-> None, value |-> None, items |-> NoItems]
OtherRequests == {OtherReq("PING"), OtherReq("VOTE_RESPONSE")}

\* a message whose bytes are not JSON: json.loads raises on it
BadJson == [op |-> "not JSON", key |-> None, value |-> None, items |-> NoItems]

SetOp(k, v) == [type |-> "set", key |-> k, value |-> v, items |-> NoItems]
DeleteOp(k) == [type |-> "delete", key |-> k, value |-> None, items |-> NoItems]
BulkOp(items) == [type |-> "bulk_set", key |-> None, value |-> None, items |-> items]

WalOps == {SetOp(k, v) : k \in Keys, v \in Values} \cup {DeleteOp(k) : k \in Keys}
            \cup {BulkOp(items) : items \in BulkInputs}

NoResp == [status |-> "none", success |-> FALSE, value |-> None, message |-> ""]
OkResp(success) == [status |-> "OK", success |-> success, value |-> None, message |-> ""]
ValueResp(v) == [status |-> "OK", success |-> FALSE, value |-> v, message |-> ""]
NotFoundResp == [status |-> "NOT_FOUND", success |-> FALSE, value |-> None, message |-> ""]
ErrorResp(m) == [status |-> "ERROR", success |-> FALSE, value |-> None, message |-> m]

----------------------------------------------------------------------------
(* Serialization: pickle and the 4-byte big-endian length prefix *)

RECURSIVE Flatten(_)
Flatten(items) ==
    IF items = << >> THEN << >>
    ELSE <<items[1][1], items[1][2]>> \o Flatten(Tail(items))

RECURSIVE Unflatten(_)
Unflatten(cells) ==
    IF Len(cells) < 2 THEN << >>
    ELSE <<(<<cells[1], cells[2]>>)>> \o Unflatten(SubSeq(cells, 3, Len(cells)))

\* pickle.dumps(operation): the tokens of the pickle, ended by the STOP opcode "."
PickleDumps(op) ==
    CASE op.type = "set" -> <<"set", op.key, op.value, ".">>
      [] op.type = "delete" -> <<"delete", op.key, ".">>
      [] op.type = "bulk_set" -> <<"bulk_set">> \o Flatten(op.items) \o <<".">>

\* pickle.loads(entry_bytes): raises on empty or truncated input (no STOP opcode)
PickleLoads(bs) ==
    IF Len(bs) = 0 \/ bs[Len(bs)] # "." THEN [ok |-> FALSE, op |-> DeleteOp(None)]
    ELSE CASE bs[1] = "set" -> [ok |-> TRUE, op |-> SetOp(bs[2], bs[3])]
           [] bs[1] = "delete" -> [ok |-> TRUE, op |-> DeleteOp(bs[2])]
           [] bs[1] = "bulk_set" ->
                [ok |-> TRUE, op |-> BulkOp(Unflatten(SubSeq(bs, 2, Len(bs) - 1)))]

\* len(entry).to_bytes(4, byteorder='big')
ToBytes4(n) == <<(n \div 16777216) % 256, (n \div 65536) % 256, (n \div 256) % 256, n % 256>>

\* int.from_bytes(length_bytes, byteorder='big'), for any number of bytes
RECURSIVE FromBytes(_)
FromBytes(bs) ==
    IF bs = << >> THEN 0
    ELSE FromBytes(SubSeq(bs, 1, Len(bs) - 1)) * 256 + bs[Len(bs)]

\* the bytes log_operation writes for one operation
Frame(op) == ToBytes4(Len(PickleDumps(op))) \o PickleDumps(op)

\* f.read(n) at position pos (1-based): at most n cells, fewer at end of file
FileRead(file, pos, n) == SubSeq(file, pos, Min(pos + n - 1, Len(file)))

\* WriteAheadLog.replay: the loop over length-prefixed records.  The result is
\* [ok, ops]; ok = FALSE when pickle.loads raised.
RECURSIVE ReplayFrom(_, _, _)
ReplayFrom(file, pos, ops) ==
    LET length_bytes == FileRead(file, pos, 4)
    IN  IF length_bytes = << >> THEN [ok |-> TRUE, ops |-> ops]
        ELSE LET length == FromBytes(length_bytes)
                 entry_bytes == FileRead(file, pos + 4, length)
                 loaded == PickleLoads(entry_bytes)
             IN  IF ~loaded.ok THEN [ok |-> FALSE, ops |-> ops]
                 ELSE ReplayFrom(file, pos + 4 + length, Append(ops, loaded.op))

replay(file) == ReplayFrom(file, 1, << >>)

\* pickle.dump(self.store, f): the dict's pairs, then STOP
RECURSIVE StorePairs(_, _)
StorePairs(s, i) ==
    IF i > Len(KeyOrder) THEN << >>
    ELSE (IF KeyOrder[i] \in DOMAIN s THEN <<KeyOrder[i], s[KeyOrder[i]]>> ELSE << >>)
         \o StorePairs(s, i + 1)

PickleDumpStore(s) == <<"{">> \o StorePairs(s, 1) \o <<".">>

RECURSIVE PutAll(_, _)
PutAll(s, items) ==
    IF items = << >> THEN s
    ELSE PutAll(Put(s, items[1][1], items[1][2]), Tail(items))

\* pickle.load(f) of the checkpoint: raises on an empty or truncated file
PickleLoadStore(bs) ==
    IF Len(bs) = 0 \/ bs[Len(bs)] # "." THEN [ok |-> FALSE, store |-> EmptyStore]
    ELSE [ok |-> TRUE, store |-> PutAll(EmptyStore, Unflatten(SubSeq(bs, 2, Len(bs) - 1)))]

----------------------------------------------------------------------------
(* The wire: [4-byte big-endian length][JSON object], read by _handle_client. *)
(* Every byte is a number; a word of the JSON text (an operation name, a key, *)
(* a value) is one number above 255.                                         *)

Word(w) ==
    LET words == <<"SET", "GET", "DELETE", "BULK_SET", "PING", "VOTE_RESPONSE",
                   "a", "b", "v1", "None">>
    IN  255 + CHOOSE i \in 1..Len(words) : words[i] = w

\* json.dumps(request).encode('utf-8'): "{" is 123, "}" is 125
JsonDumps(r) ==
    CASE r.op = "SET" -> <<123, Word("SET"), Word(r.key), Word(r.value), 125>>
      [] r.op \in {"GET", "DELETE"} -> <<123, Word(r.op), Word(r.key), 125>>
      [] r.op = "BULK_SET" ->
            <<123, Word("BULK_SET")>>
              \o [i \in 1..(2 * Len(r.items)) |-> Word(Flatten(r.items)[i])] \o <<125>>
      [] OTHER -> <<123, Word(r.op), 125>>

\* what json.loads returns for a JSON text that is a number, not an object
NotObject == OtherReq("number")

\* json.loads(message_data.decode('utf-8')): white space (9, 10, 13, 32) around
\* the text is skipped; the text is an object, or a number (digits 48..57); on
\* anything else, the empty text included, json.loads raises (ok = FALSE).
JsonLoads(bs) ==
    LET Text(i) == bs[i] \notin {9, 10, 13, 32}
        inked == {i \in 1..Len(bs) : Text(i)}
        text == IF inked = {} THEN << >>
                ELSE SubSeq(bs, CHOOSE i \in inked : \A j \in inked : i <= j,
                                CHOOSE i \in inked : \A j \in inked : i >= j)
        objects == {r \in Requests \cup OtherRequests : JsonDumps(r) = text}
    IN  IF text = << >> THEN [ok |-> FALSE, request |-> BadJson]
        ELSE IF (\A i \in 1..Len(text) : text[i] \in 48..57)
                  /\ (Len(text) = 1 \/ text[1] # 48)
        THEN [ok |-> TRUE, request |-> NotObject]
        ELSE IF objects # {} THEN [ok |-> TRUE, request |-> CHOOSE r \in objects : TRUE]
        ELSE [ok |-> FALSE, request |-> BadJson]

\* the socket of a connection whose bytes are not followed: whole messages
\* arrive on it, any request at any time (a real segment is never empty)
Unframed == <<(<< >>)>>

RECURSIVE Concat(_)
Concat(segments) ==
    IF segments = << >> THEN << >> ELSE segments[1] \o Concat(Tail(segments))

\* _handle_client reading one message from a socket on which the given
\* segments arrive, the end of the stream after them.  recv(4) returns what
\* has arrived, at most 4 bytes, and nothing at the end of the stream; the
\* loop over recv then reads until it has message_length bytes or the stream
\* ends.  kind is "eof" (first break), "short" (second break) or "message".
ReadMessage(segments) ==
    IF segments = << >> THEN [kind |-> "eof", data |-> << >>, rest |-> << >>]
    ELSE LET length_bytes == SubSeq(segments[1], 1, Min(4, Len(segments[1])))
             message_length == FromBytes(length_bytes)
             stream == Concat(segments)
             after == SubSeq(stream, Len(length_bytes) + 1, Len(stream))
             message_data == SubSeq(after, 1, Min(message_length, Len(after)))
             left == SubSeq(after, Len(message_data) + 1, Len(after))
         IN  IF Len(message_data) # message_length
             THEN [kind |-> "short", data |-> message_data, rest |-> << >>]
             ELSE [kind |-> "message", data |-> message_data,
                   rest |-> IF left = << >> THEN << >> ELSE <<left>>]

----------------------------------------------------------------------------
(* Recovery: KVStore._load_from_disk *)

\* replay deleting with `del self.store[key]`, which raises for an absent key,
\* instead of pop(key, None); the store is then marked by the exception
ApplyOp_del(s, op) ==
    CASE op.type = "set" -> Put(s, op.key, op.value)
      [] op.type = "delete" ->
            IF op.key \in DOMAIN s THEN Pop(s, op.key) ELSE [k \in Keys |-> "KeyError"]
      [] op.type = "bulk_set" -> PutAll(s, op.items)

\* one replayed operation applied to the store
ApplyOp(s, op) ==
    CASE op.type = "set" -> Put(s, op.key, op.value)
      [] op.type = "delete" -> Pop(s, op.key)
      [] op.type = "bulk_set" -> PutAll(s, op.items)

RECURSIVE ApplyOps(_, _)
ApplyOps(s, ops) ==
    IF ops = << >> THEN s ELSE ApplyOps(ApplyOp(s, ops[1]), Tail(ops))

\* [ok, store]: ok = FALSE when loading the checkpoint or replaying the WAL raised
LoadFromDisk(data, wal) ==
    LET ck == IF data.exists THEN PickleLoadStore(data.bytes)
              ELSE [ok |-> TRUE, store |-> EmptyStore]
        rp == replay(wal)
    IN  IF ck.ok /\ rp.ok THEN [ok |-> TRUE, store |-> ApplyOps(ck.store, rp.ops)]
        ELSE [ok |-> FALSE, store |-> EmptyStore]

----------------------------------------------------------------------------
(* What a request logs, writes and leaves behind *)

\* bulk_set logging one set record per item instead of one record for the batch
LogRecords_per_item(r) ==
    CASE r.op = "SET" -> <<SetOp(r.key, r.value)>>
      [] r.op = "DELETE" -> <<DeleteOp(r.key)>>
      [] r.op = "BULK_SET" -> [i \in 1..Len(r.items) |-> SetOp(r.items[i][1], r.items[i][2])]

\* delete removing the key from memory without logging a record
LogRecords_delete_unlogged(r) ==
    CASE r.op = "SET" -> <<SetOp(r.key, r.value)>>
      [] r.op = "DELETE" -> << >>
      [] r.op = "BULK_SET" -> <<BulkOp(r.items)>>

\* the operations a mutation appends to the WAL, each by one log_operation call
LogRecords(r) ==
    CASE r.op = "SET" -> <<SetOp(r.key, r.value)>>
      [] r.op = "DELETE" -> <<DeleteOp(r.key)>>
      [] r.op = "BULK_SET" -> <<BulkOp(r.items)>>

RECURSIVE Frames(_)
Frames(ops) == IF ops = << >> THEN << >> ELSE Frame(ops[1]) \o Frames(Tail(ops))

\* the assignments store[key] = value a SET or BULK_SET makes, in order
ReqItems(r) == IF r.op = "SET" THEN <<(<<r.key, r.value>>)>> ELSE r.items

ReqKeys(r) ==
    IF r.op = "BULK_SET" THEN {r.items[i][1] : i \in 1..Len(r.items)} ELSE {r.key}

\* the store once mutation r has been applied to store s
Effect(s, r) == IF r.op = "DELETE" THEN Pop(s, r.key) ELSE PutAll(s, ReqItems(r))

\* KVStore.delete logging and deleting whatever the key, with no test for it
DeleteOfAbsent_logged(s, r) == FALSE

\* KVStore.delete: `if key not in self.store: return False`
DeleteOfAbsent(s, r) == r.op = "DELETE" /\ r.key \notin DOMAIN s

\* KVStoreServer._process_request, GET: None from the store is answered NOT_FOUND
GetReply(s, k) ==
    LET value == DictGet(s, k)
    IN  IF value = None THEN NotFoundResp ELSE ValueResp(value)

\* keys some connection thread is mutating, its reply not yet sent
InFlightKeys == UNION {ReqKeys(req[c]) : c \in {x \in Clients : IsMutation(req[x])}}

----------------------------------------------------------------------------
(* The cluster: three nodes, as test_cluster.py starts them *)

Nodes == {"n0", "n1", "n2"}
\* the node started with --primary
Bootstrap == "n0"

\* the --peers argument of each of the three nodes: the other two, in order
ClusterPeers(n) ==
    CASE n = "n0" -> <<"n1", "n2">>
      [] n = "n1" -> <<"n0", "n2">>
      [] n = "n2" -> <<"n0", "n1">>

\* ClusterNode.peers
Peers(n) == peers[n]

\* NodeRole
PRIMARY == "primary"
SECONDARY == "secondary"
CANDIDATE == "candidate"
\* a node whose process was killed (SIGKILL, as test_primary_failover does)
CRASHED == "crashed"
Up(n) == role[n] # CRASHED

\* each node runs one heartbeat/election thread and serves one client
\* connection; the node started as primary may serve a second one
HB == "heartbeat_thread"
CONN == "client_thread"
CONN2 == "client_thread_2"
Threads == ({HB, CONN} \X Nodes) \cup {<<CONN2, Bootstrap>>}
Owner(t) == t[2]

Max(a, b) == IF a > b THEN a ELSE b

\* the requests clients send to cluster nodes
ClusterRequests ==
    {SetReq("a", "v1"), DeleteReq("a"), GetReq("a"),
     BulkReq([i \in 1..Len(KeyOrder) |-> <<KeyOrder[i], "v1">>])} \cup OtherRequests

\* `if operation in ['HEARTBEAT', 'VOTE_REQUEST', 'VOTE_RESPONSE', 'REPLICATE']`
ClusterMessages == {"HEARTBEAT", "VOTE_REQUEST", "VOTE_RESPONSE", "REPLICATE"}

\* the reply of a node that refuses a write, with the primary address it holds
NotPrimaryResp(p) ==
    [status |-> "ERROR", success |-> FALSE, value |-> None, message |-> "Not primary",
     primary |-> p]

\* a thread that is between two passes of its loop.  exc is the exception its
\* request raised, if any; seen is history, not program state: the peers that
\* were sent the thread's REPLICATE, each with the role it had when it handled
\* the message, or "unreachable" if the call failed.  granted is history too:
\* the voters that granted the thread's VOTE_REQUEST.
IdleThread ==
    [pc |-> "idle", peer |-> 0, votes |-> 0, term |-> 0, tmp |-> 0,
     req |-> NoReq, resp |-> NoResp, success |-> FALSE, exc |-> None, seen |-> {},
     granted |-> {}]

\* no call being handled by a peer
NoRpc == [stage |-> "none", tmp |-> 0]

\* KVStore.set / delete / bulk_set of the cluster module, as one step:
\* the record is logged and the store updated under the store lock
KvApply(kv, r) ==
    IF DeleteOfAbsent(kv.store, r)
    THEN [kv |-> kv, success |-> FALSE]
    ELSE [kv |-> [store |-> Effect(kv.store, r), wal |-> kv.wal \o LogRecords(r)],
          success |-> TRUE]

\* what log_operation can raise: the write fails and nothing is appended, or
\* the record is written and os.fsync fails
WriteFails == "[Errno 28] No space left on device"
FsyncFails == "[Errno 5] Input/output error"
IoOutcomes == {None, WriteFails, FsyncFails}

\* the KVStore of a node after a set / delete / bulk_set whose log_operation raised
KvFailed(kv, r, exc) ==
    IF exc = FsyncFails THEN [kv EXCEPT !.wal = @ \o LogRecords(r)] ELSE kv

InitCluster ==
    /\ role = [n \in Nodes |-> IF n = Bootstrap THEN PRIMARY ELSE SECONDARY]
    /\ term = [n \in Nodes |-> 0]
    /\ voted_for = [n \in Nodes |-> None]
    /\ primary_node = [n \in Nodes |-> IF n = Bootstrap THEN Bootstrap ELSE None]
    /\ peers = [n \in Nodes |-> ClusterPeers(n)]
    /\ expired = [n \in Nodes |-> FALSE]
    /\ now = 0
    /\ last_heartbeat = [n \in Nodes |-> 0]
    /\ kvstore = [n \in Nodes |-> [store |-> EmptyStore, wal |-> << >>]]
    /\ thr = [t \in Threads |-> IdleThread]
    /\ rpc = [t \in Threads |-> NoRpc]
    /\ nclient = 0
    /\ nelect = 0
    /\ nbeats = 0

----------------------------------------------------------------------------
(* Initial state: a server started on an empty data directory *)

InitServer ==
    /\ proc = "up"
    /\ store = EmptyStore
    /\ walFile = << >>
    /\ dataFile = [exists |-> FALSE, bytes |-> << >>]
    /\ lock = {}
    /\ running = TRUE
    /\ walOpen = TRUE
    /\ pc = [c \in Clients |-> "idle"]
    /\ req = [c \in Clients |-> NoReq]
    /\ resp = [c \in Clients |-> NoResp]
    /\ idx = [c \in Clients |-> 0]
    /\ tpc = [t \in {CK, MAIN} |-> IF t = CK THEN "sleep" ELSE "serve"]
    /\ socket = [c \in Clients |-> Unframed]
    /\ acked = EmptyStore
    /\ lost = {}
    /\ nreq = 0
    /\ stops = 0
    /\ shutdown = "no"

Init == InitServer /\ InitCluster

----------------------------------------------------------------------------
(* Client connection threads: KVStoreServer._handle_client, _process_request *)

\* What receiving a request changes besides the thread itself.  Where the
\* bytes of the connection are followed, r is the request that _handle_client
\* reads from the socket.
Received(c, r) ==
    /\ proc = "up"
    /\ pc[c] = "idle"
    /\ nreq < MaxRequests
    /\ nreq' = nreq + 1
    /\ req' = [req EXCEPT ![c] = r]
    /\ shutdown' = IF tpc[MAIN] = "serve" THEN "no" ELSE "busy"
    /\ IF socket[c] = Unframed
       THEN UNCHANGED socket
       ELSE LET m == ReadMessage(socket[c])
            IN  /\ m.kind = "message"
                /\ r = JsonLoads(m.data).request
                /\ socket' = [socket EXCEPT ![c] = m.rest]
    /\ UNCHANGED clusterVars

\* A GET is read from the socket; KVStore.get runs under the store lock and
\* _process_request builds the reply from what it returns.
get(c, r) ==
    /\ r.op = "GET"
    /\ Received(c, r)
    /\ lock = {}
    /\ resp' = [resp EXCEPT ![c] = GetReply(store, r.key)]
    /\ pc' = [pc EXCEPT ![c] = "send"]
    /\ UNCHANGED <<proc, store, walFile, dataFile, lock, running, walOpen, idx, tpc,
                   acked, lost, stops>>

\* set / delete / bulk_set logging and updating the store without holding the lock
LockTaken_unlocked(c) == {}

\* the lock's holders once thread c has entered `with self._lock`
LockTaken(c) == {c}

\* A SET, DELETE or BULK_SET is read from the socket and KVStore.set / delete /
\* bulk_set enters `with self._lock`.  A delete of an absent key returns False
\* at once, with nothing logged.
AcquireForMutation(c, r) ==
    /\ IsMutation(r)
    /\ Received(c, r)
    /\ lock = {}
    /\ acked' = Effect(acked, r)
    /\ lost' = lost \ ReqKeys(r)
    /\ IF DeleteOfAbsent(store, r)
       THEN /\ resp' = [resp EXCEPT ![c] = OkResp(FALSE)]
            /\ pc' = [pc EXCEPT ![c] = "send"]
            /\ UNCHANGED lock
       ELSE /\ lock' = LockTaken(c)
            /\ pc' = [pc EXCEPT ![c] = "log"]
            /\ UNCHANGED resp
    /\ UNCHANGED <<proc, store, walFile, dataFile, running, walOpen, idx, tpc, stops>>

\* _process_request, the final else: the operation is none of SET, GET, DELETE,
\* BULK_SET
unknown_operation(c, r) ==
    /\ r.op \notin {"SET", "GET", "DELETE", "BULK_SET"}
    /\ Received(c, r)
    /\ resp' = [resp EXCEPT ![c] = ErrorResp("Unknown operation")]
    /\ pc' = [pc EXCEPT ![c] = "send"]
    /\ UNCHANGED <<proc, store, walFile, dataFile, lock, running, walOpen, idx, tpc,
                   acked, lost, stops>>

\* _handle_client: json.loads raises on the message; the except clause around
\* the loop prints the error and the finally clause closes the socket.  The
\* thread ends with nothing sent to the client.
json_loads_raises(c) ==
    /\ Received(c, BadJson)
    /\ pc' = [pc EXCEPT ![c] = "closed"]
    /\ UNCHANGED <<proc, store, walFile, dataFile, lock, running, walOpen, resp, idx, tpc,
                   acked, lost, stops>>

\* _process_request: the JSON text was a number, request.get raises
\* AttributeError and the except clause answers with an ERROR reply
not_an_object(c) ==
    /\ Received(c, NotObject)
    /\ resp' = [resp EXCEPT ![c] = ErrorResp("'int' object has no attribute 'get'")]
    /\ pc' = [pc EXCEPT ![c] = "send"]
    /\ UNCHANGED <<proc, store, walFile, dataFile, lock, running, walOpen, idx, tpc,
                   acked, lost, stops>>

\* _handle_client: recv(4) returned nothing, or the stream ended before
\* message_length bytes had come: break, and the finally clause closes the
\* socket
short_read(c) ==
    /\ proc = "up"
    /\ pc[c] = "idle"
    /\ socket[c] # Unframed
    /\ ReadMessage(socket[c]).kind # "message"
    /\ pc' = [pc EXCEPT ![c] = "closed"]
    /\ socket' = [socket EXCEPT ![c] = << >>]
    /\ UNCHANGED <<proc, store, walFile, dataFile, lock, running, walOpen, req, resp, idx, tpc,
                   acked, lost, nreq, stops, shutdown>>
    /\ UNCHANGED clusterVars

\* KVStoreServer.start: the client connects again and a new thread serves it
accept(c) ==
    /\ proc = "up"
    /\ pc[c] = "closed"
    /\ pc' = [pc EXCEPT ![c] = "idle"]
    /\ req' = [req EXCEPT ![c] = NoReq]
    /\ UNCHANGED <<proc, store, walFile, dataFile, lock, running, walOpen, resp, idx, tpc,
                   acked, lost, nreq, stops, shutdown>>
    /\ UNCHANGED <<clusterVars, socket>>

\* WriteAheadLog.log_operation: one write of length prefix and entry, flush, fsync.
\* Writing to a closed file raises; the exception leaves `with self._lock` and
\* _process_request turns it into an ERROR reply.
log_operation(c) ==
    /\ proc = "up"
    /\ pc[c] = "log"
    /\ IF walOpen
       THEN /\ walFile' = walFile \o Frames(LogRecords(req[c]))
            /\ pc' = [pc EXCEPT ![c] = "mem"]
            /\ idx' = [idx EXCEPT ![c] = 1]
            /\ UNCHANGED <<lock, resp, lost>>
       ELSE /\ lock' = lock \ {c}
            /\ resp' = [resp EXCEPT ![c] = ErrorResp("I/O operation on closed file")]
            /\ pc' = [pc EXCEPT ![c] = "send"]
            /\ lost' = lost \cup ReqKeys(req[c])
            /\ UNCHANGED <<walFile, idx>>
    /\ UNCHANGED <<proc, store, dataFile, running, walOpen, req, tpc,
                   acked, nreq, stops, shutdown>>
    /\ UNCHANGED <<clusterVars, socket>>

\* bulk_set returning whether it set anything, so that an empty batch is
\* answered with success false
MutationResult_nonempty(r) == ReqItems(r) # << >>

\* `return True` at the end of set, of bulk_set and of a delete that found the key
MutationResult(r) == TRUE

\* bulk_set taking the lock per item instead of around the whole loop
LockAfterItem_per_item(c, i, n, held) == held \ {c}

\* the lock's holders after thread c has applied item i of n
LockAfterItem(c, i, n, held) == IF i >= n THEN held \ {c} ELSE held

\* The in-memory update after the WAL append: the assignment of set, the del of
\* delete, or one iteration of bulk_set's loop; the lock is released on return.
ApplyToMemory(c) ==
    /\ proc = "up"
    /\ pc[c] = "mem"
    /\ LET items == ReqItems(req[c])
           n == IF req[c].op = "DELETE" THEN 1 ELSE Len(items)
           i == idx[c]
           last == i >= n
       IN  /\ store' = IF req[c].op = "DELETE" THEN Pop(store, req[c].key)
                        ELSE IF i <= n THEN Put(store, items[i][1], items[i][2])
                        ELSE store
           /\ lock' = LockAfterItem(c, i, n, lock)
           /\ idx' = [idx EXCEPT ![c] = IF last THEN 0 ELSE i + 1]
           /\ pc' = [pc EXCEPT ![c] = IF last THEN "send" ELSE "mem"]
           /\ resp' = [resp EXCEPT ![c] = IF last THEN OkResp(MutationResult(req[c]))
                                           ELSE NoResp]
    /\ UNCHANGED <<proc, walFile, dataFile, running, walOpen, req, tpc,
                   acked, lost, nreq, stops, shutdown>>
    /\ UNCHANGED <<clusterVars, socket>>

\* client_socket.sendall(response): the client observes the reply.
SendReply(c) ==
    /\ proc = "up"
    /\ pc[c] = "send"
    /\ pc' = [pc EXCEPT ![c] = "idle"]
    /\ req' = [req EXCEPT ![c] = NoReq]
    /\ resp' = [resp EXCEPT ![c] = NoResp]
    /\ UNCHANGED <<proc, store, walFile, dataFile, lock, running, walOpen, idx, tpc,
                   acked, lost, nreq, stops, shutdown>>
    /\ UNCHANGED <<clusterVars, socket>>

----------------------------------------------------------------------------
(* Checkpointing: KVStoreServer._periodic_checkpoint, KVStore.checkpoint *)

\* The sleep is over and `if self.running` was true: checkpoint() is called.
PeriodicWake ==
    /\ proc = "up"
    /\ tpc[CK] = "sleep"
    /\ running
    /\ tpc' = [tpc EXCEPT ![CK] = "called"]
    /\ UNCHANGED <<proc, store, walFile, dataFile, lock, running, walOpen, pc, req, resp, idx,
                   acked, lost, nreq, stops, shutdown>>
    /\ UNCHANGED <<clusterVars, socket>>

\* data.pkl as open(self.data_file, 'wb') leaves it: in place, truncated to nothing
OpenedForWrite(old) == [exists |-> TRUE, bytes |-> << >>]

CheckpointLock_released(t) == {}

\* the holders of the store lock inside the `with self._lock` of checkpoint()
CheckpointLock(t) == {t}

\* KVStore.checkpoint: `with self._lock`, then open(self.data_file, 'wb')
CheckpointOpen(t) ==
    /\ proc = "up"
    /\ tpc[t] = "called"
    /\ lock = {}
    /\ lock' = CheckpointLock(t)
    /\ dataFile' = OpenedForWrite(dataFile)
    /\ tpc' = [tpc EXCEPT ![t] = "dump"]
    /\ UNCHANGED <<proc, store, walFile, running, walOpen, pc, req, resp, idx,
                   acked, lost, nreq, stops, shutdown>>
    /\ UNCHANGED <<clusterVars, socket>>

\* pickle.dump(self.store, f) and the close of the file
CheckpointDump(t) ==
    /\ proc = "up"
    /\ tpc[t] = "dump"
    /\ dataFile' = [exists |-> TRUE, bytes |-> PickleDumpStore(store)]
    /\ tpc' = [tpc EXCEPT ![t] = "trunc"]
    /\ UNCHANGED <<proc, store, walFile, lock, running, walOpen, pc, req, resp, idx,
                   acked, lost, nreq, stops, shutdown>>
    /\ UNCHANGED <<clusterVars, socket>>

\* WriteAheadLog.checkpoint: close, truncate, reopen; then checkpoint() returns
\* and releases the store lock.
wal_checkpoint(t) ==
    /\ proc = "up"
    /\ tpc[t] = "trunc"
    /\ walFile' = << >>
    /\ walOpen' = TRUE
    /\ lock' = lock \ {t}
    /\ tpc' = [tpc EXCEPT ![t] = IF t = CK THEN "sleep" ELSE "close"]
    /\ UNCHANGED <<proc, store, dataFile, running, pc, req, resp, idx,
                   acked, lost, nreq, stops, shutdown>>
    /\ UNCHANGED <<clusterVars, socket>>

----------------------------------------------------------------------------
(* Graceful shutdown: signal_handler, KVStoreServer.shutdown, KVStore.shutdown *)

Quiet == (\A c \in Clients : pc[c] = "idle") /\ lost = {}

\* SIGTERM or SIGINT: the handler runs on the main thread, sets running = False
\* and calls kvstore.shutdown(), which calls checkpoint().
Signal ==
    /\ proc = "up"
    /\ tpc[MAIN] = "serve"
    /\ stops < MaxStops
    /\ running' = FALSE
    /\ tpc' = [tpc EXCEPT ![MAIN] = "called"]
    /\ stops' = stops + 1
    /\ shutdown' = IF Quiet THEN "quiet" ELSE "busy"
    /\ UNCHANGED <<proc, store, walFile, dataFile, lock, walOpen, pc, req, resp, idx,
                   acked, lost, nreq>>
    /\ UNCHANGED <<clusterVars, socket>>

\* self.wal.close()
wal_close ==
    /\ proc = "up"
    /\ tpc[MAIN] = "close"
    /\ walOpen' = FALSE
    /\ tpc' = [tpc EXCEPT ![MAIN] = "exit"]
    /\ UNCHANGED <<proc, store, walFile, dataFile, lock, running, pc, req, resp, idx,
                   acked, lost, nreq, stops, shutdown>>
    /\ UNCHANGED <<clusterVars, socket>>

----------------------------------------------------------------------------
(* The end of the process and its restart *)

\* wal.log after the process ends: a thread inside log_operation's write may
\* have written any part of its bytes.
WalAfterStop ==
    IF walOpen /\ \E c \in Clients : pc[c] = "log"
    THEN LET c == CHOOSE x \in Clients : pc[x] = "log"
             bytes == Frames(LogRecords(req[c]))
         IN  {walFile \o SubSeq(bytes, 1, n) : n \in 0..(Len(bytes) - 1)}
    ELSE {walFile}

\* data.pkl after the process ends: a thread inside pickle.dump may have
\* written any part of the pickle.
DataAfterStop ==
    IF \E t \in {CK, MAIN} : tpc[t] = "dump"
    THEN LET bytes == PickleDumpStore(store)
         IN  {[exists |-> TRUE, bytes |-> SubSeq(bytes, 1, n)] : n \in 0..(Len(bytes) - 1)}
    ELSE {dataFile}

\* Every thread ends where it is; memory is gone; the files stay.
Stop ==
    /\ proc' = "down"
    /\ walFile' \in WalAfterStop
    /\ dataFile' \in DataAfterStop
    /\ store' = EmptyStore
    /\ lock' = {}
    /\ running' = FALSE
    /\ walOpen' = FALSE
    /\ pc' = [c \in Clients |-> "idle"]
    /\ req' = [c \in Clients |-> NoReq]
    /\ resp' = [c \in Clients |-> NoResp]
    /\ idx' = [c \in Clients |-> 0]
    /\ tpc' = [t \in {CK, MAIN} |-> IF t = CK THEN "sleep" ELSE "serve"]
    /\ lost' = lost \cup InFlightKeys
    /\ UNCHANGED <<acked, nreq>>
    /\ UNCHANGED <<clusterVars, socket>>

\* kill -9
Kill ==
    /\ proc = "up"
    /\ stops < MaxStops
    /\ Stop
    /\ stops' = stops + 1
    /\ shutdown' = "no"

\* sys.exit(0) at the end of the signal handler: the interpreter exits and the
\* daemon threads (connections, periodic checkpoint) end with it.
Exit ==
    /\ proc = "up"
    /\ tpc[MAIN] = "exit"
    /\ Stop
    /\ UNCHANGED <<stops, shutdown>>

\* the WAL opened with mode 'wb', which empties it
OpenedForAppend_truncating(file) == << >>

\* wal.log as WriteAheadLog._open_wal leaves it: open(self.wal_path, 'ab')
\* creates the file if it is missing and keeps what it holds
OpenedForAppend(file) == file

\* The process is started again on the same data directory: KVStore.__init__
\* opens the WAL and runs _load_from_disk; an exception there ends the process.
Restart ==
    /\ proc = "down"
    /\ walFile' = OpenedForAppend(walFile)
    /\ LET r == LoadFromDisk(dataFile, walFile')
       IN  IF r.ok
           THEN /\ proc' = "up"
                /\ store' = r.store
                /\ running' = TRUE
                /\ walOpen' = TRUE
           ELSE /\ proc' = "failed"
                /\ UNCHANGED <<store, running, walOpen>>
    /\ UNCHANGED <<dataFile, lock, pc, req, resp, idx, tpc,
                   acked, lost, nreq, stops, shutdown>>
    /\ UNCHANGED <<clusterVars, socket>>

----------------------------------------------------------------------------
(* The single node under any clients, checkpoints, kills and shutdowns *)

\* the steps of a connection thread once its request has been received
Serve ==
    \/ \E c \in Clients : log_operation(c)
    \/ \E c \in Clients : ApplyToMemory(c)
    \/ \E c \in Clients : SendReply(c)

\* the checkpoint thread, the signal handler, the end of the process, its restart
Background ==
    \/ PeriodicWake
    \/ \E t \in {CK, MAIN} : CheckpointOpen(t)
    \/ \E t \in {CK, MAIN} : CheckpointDump(t)
    \/ \E t \in {CK, MAIN} : wal_checkpoint(t)
    \/ Signal
    \/ wal_close
    \/ Kill
    \/ Exit
    \/ Restart

Next ==
    \/ \E c \in Clients, r \in Requests : get(c, r)
    \/ \E c \in Clients, r \in Requests : AcquireForMutation(c, r)
    \/ \E c \in Clients, r \in OtherRequests : unknown_operation(c, r)
    \/ \E c \in Clients : json_loads_raises(c)
    \/ \E c \in Clients : accept(c)
    \/ Serve
    \/ Background

Spec == Init /\ [][Next]_vars

\* The same node when its clients send only batches and reads, as in
\* test_concurrent_bulk_set_isolation and test_atomic_bulk_set_with_crash.
NextBulk ==
    \/ \E c \in Clients, r \in GetRequests : get(c, r)
    \/ \E c \in Clients, r \in BulkRequests : AcquireForMutation(c, r)
    \/ Serve
    \/ Background

SpecBulk == Init /\ [][NextBulk]_vars

\* The same node when its clients only set and delete keys.
DeleteRequests == {DeleteReq(k) : k \in Keys}
SetRequests == {SetReq(k, v) : k \in Keys, v \in Values}

NextDelete ==
    \/ \E c \in Clients, r \in SetRequests \cup DeleteRequests : AcquireForMutation(c, r)
    \/ Serve
    \/ Background

SpecDelete == Init /\ [][NextDelete]_vars

\* The same node under concurrent writers, readers and periodic checkpoints,
\* with no kill and no shutdown.
NextOrder ==
    \/ \E c \in Clients, r \in SetRequests \cup DeleteRequests \cup BulkRequests :
           AcquireForMutation(c, r)
    \/ \E c \in Clients, r \in GetRequests : get(c, r)
    \/ Serve
    \/ PeriodicWake
    \/ CheckpointOpen(CK)
    \/ CheckpointDump(CK)
    \/ wal_checkpoint(CK)

SpecOrder == Init /\ [][NextOrder]_vars

----------------------------------------------------------------------------
(* Framing: one connection on which the bytes of one frame arrive, whole or *)
(* cut short, in one segment or two, and then the end of the stream.        *)

\* the ways in which the bytes, or a part of them, arrive: in one segment, or
\* in two
Segmented(bytes) ==
    {IF p[1] = p[2] THEN <<SubSeq(bytes, 1, p[2])>>
     ELSE <<SubSeq(bytes, 1, p[1]), SubSeq(bytes, p[1] + 1, p[2])>> :
         p \in {q \in (1..Len(bytes)) \X (1..Len(bytes)) : q[1] <= q[2]}}

\* The frames of four requests, each with a prefix that announces the length
\* of the payload or a larger one (305, or 256 * (length + 1) + 32), as they
\* may arrive.
Streams ==
    LET payloads == {JsonDumps(r) : r \in {SetReq("a", "v1"), GetReq("a"), DeleteReq("a"),
                                           OtherReq("PING")}}
        Announced(payload) == {Len(payload), 256 + 49, 256 * (Len(payload) + 1) + 32}
    IN  UNION {UNION {Segmented(ToBytes4(n) \o payload) : n \in Announced(payload)} :
               payload \in payloads}

InitFraming ==
    /\ proc = "up"
    /\ store \in {EmptyStore, Put(EmptyStore, "a", "v1")}
    /\ walFile = << >>
    /\ dataFile = [exists |-> TRUE, bytes |-> PickleDumpStore(store)]
    /\ lock = {}
    /\ running = TRUE
    /\ walOpen = TRUE
    /\ pc = [c \in Clients |-> "idle"]
    /\ req = [c \in Clients |-> NoReq]
    /\ resp = [c \in Clients |-> NoResp]
    /\ idx = [c \in Clients |-> 0]
    /\ tpc = [t \in {CK, MAIN} |-> IF t = CK THEN "sleep" ELSE "serve"]
    /\ \E stream \in Streams : socket = [c \in Clients |-> IF c = "c1" THEN stream ELSE << >>]
    /\ acked = store
    /\ lost = {}
    /\ nreq = 0
    /\ stops = 0
    /\ shutdown = "no"
    /\ InitCluster

NextFraming ==
    \/ \E c \in Clients, r \in Requests : get(c, r)
    \/ \E c \in Clients, r \in Requests : AcquireForMutation(c, r)
    \/ \E c \in Clients, r \in OtherRequests : unknown_operation(c, r)
    \/ \E c \in Clients : json_loads_raises(c)
    \/ \E c \in Clients : not_an_object(c)
    \/ \E c \in Clients : short_read(c)
    \/ Serve

SpecFraming == InitFraming /\ [][NextFraming]_vars

----------------------------------------------------------------------------
(* Recovery alone: a node started on any data directory, with no clients *)

\* every WAL of at most MaxReplayOps records, and every file a cut of one leaves
FullWals == UNION {{Frames(ops) : ops \in [1..n -> WalOps]} : n \in 0..MaxReplayOps}
ReplayWals == UNION {{SubSeq(f, 1, n) : n \in 0..Len(f)} : f \in FullWals}
ReplayDataFiles == {[exists |-> FALSE, bytes |-> << >>]}
                     \cup {[exists |-> TRUE, bytes |-> PickleDumpStore(s)] : s \in Stores}

InitReplay ==
    /\ proc = "down"
    /\ store = EmptyStore
    /\ walFile \in ReplayWals
    /\ dataFile \in ReplayDataFiles
    /\ lock = {}
    /\ running = FALSE
    /\ walOpen = FALSE
    /\ pc = [c \in Clients |-> "idle"]
    /\ req = [c \in Clients |-> NoReq]
    /\ resp = [c \in Clients |-> NoResp]
    /\ idx = [c \in Clients |-> 0]
    /\ tpc = [t \in {CK, MAIN} |-> IF t = CK THEN "sleep" ELSE "serve"]
    /\ socket = [c \in Clients |-> Unframed]
    /\ acked = EmptyStore
    /\ lost = {}
    /\ nreq = 0
    /\ stops = 0
    /\ shutdown = "no"
    /\ InitCluster

NextReplay ==
    \/ Restart
    \/ PeriodicWake
    \/ CheckpointOpen(CK)
    \/ CheckpointDump(CK)
    \/ wal_checkpoint(CK)
    \/ Kill

SpecReplay == InitReplay /\ [][NextReplay]_vars

----------------------------------------------------------------------------
(* Calls between cluster nodes: ClusterNode._send_to_peer.  Sending the     *)
(* message and receiving the response touch only the calling thread, so the *)
(* first is part of the handler's first step and the second of its last.    *)

Sending(t) == thr[t].pc \in {"heartbeats", "votes", "replicate"}

\* the operation of the message the thread's loop over its peers sends
MsgOp(t) ==
    CASE thr[t].pc = "heartbeats" -> "HEARTBEAT"
      [] thr[t].pc = "votes" -> "VOTE_REQUEST"
      [] thr[t].pc = "replicate" -> "REPLICATE"

\* the peer the thread's loop has reached
Peer(t) == Peers(Owner(t))[thr[t].peer]

\* `for peer_host, peer_port in self.peers`: thread t, in state th, goes on to
\* the next peer of the list (to the first one when th.peer is 0); when there
\* is none the loop ends, at once if the list is empty.  A vote that the
\* response granted is counted.
NextPeer(t, th, granted) ==
    LET votes == IF th.pc = "votes" /\ granted THEN th.votes + 1 ELSE th.votes
    IN  IF th.peer < Len(Peers(Owner(t)))
        THEN [th EXCEPT !.peer = @ + 1, !.votes = votes]
        ELSE CASE th.pc = "heartbeats" -> IdleThread
               [] th.pc = "votes" -> [th EXCEPT !.pc = "tally", !.peer = 0, !.votes = votes]
               [] th.pc = "replicate" ->
                    [th EXCEPT !.pc = "send", !.peer = 0, !.resp = OkResp(th.success)]

\* The sending thread once the call to its current peer is over.
AfterPeer(t, granted) == NextPeer(t, thr[t], granted)

\* a failed call ending the client's request with an ERROR reply instead of
\* being passed over
FailedCall_raises(t) ==
    IF thr[t].pc = "replicate"
    THEN [thr[t] EXCEPT !.pc = "send", !.peer = 0, !.resp = ErrorResp("timed out"),
                        !.seen = @ \cup {<<Peer(t), "unreachable">>}]
    ELSE AfterPeer(t, FALSE)

\* the sending thread after a call that failed: the ERROR response of
\* _send_to_peer is looked at for vote_granted only
FailedCall(t) ==
    [AfterPeer(t, FALSE) EXCEPT
        !.seen = IF thr[t].pc = "replicate"
                 THEN thr[t].seen \cup {<<Peer(t), "unreachable">>} ELSE @]

\* The call fails before the peer handles the message: the connection is
\* refused or times out.  _send_to_peer returns an ERROR response, which
\* grants no vote.
PeerFails(t) ==
    /\ Sending(t)
    /\ rpc[t].stage = "none"
    /\ thr' = [thr EXCEPT ![t] = FailedCall(t)]
    /\ UNCHANGED <<role, term, voted_for, primary_node, expired, now, last_heartbeat,
                   kvstore, rpc, nclient, nelect, nbeats>>
    /\ UNCHANGED <<nodeVars, peers>>

----------------------------------------------------------------------------
(* ClusterNode._handle_cluster_message, run by a connection thread of the   *)
(* receiving node without the coordinator lock: each read of a field and    *)
(* the write that follows it are separate steps.                            *)

\* HEARTBEAT: last_heartbeat and primary_node are set, self.term is read and
\* the maximum computed
heartbeat_received(t) ==
    /\ Sending(t)
    /\ Up(Peer(t))
    /\ MsgOp(t) = "HEARTBEAT"
    /\ rpc[t].stage = "none"
    /\ LET n == Peer(t)
       IN  /\ expired' = [expired EXCEPT ![n] = FALSE]
           /\ last_heartbeat' = [last_heartbeat EXCEPT ![n] = now]
           /\ primary_node' = [primary_node EXCEPT ![n] = Owner(t)]
           /\ rpc' = [rpc EXCEPT ![t] = [stage |-> "store_term",
                                         tmp |-> Max(term[n], thr[t].term)]]
    /\ UNCHANGED <<role, term, voted_for, now, kvstore, thr, nclient, nelect, nbeats>>
    /\ UNCHANGED <<nodeVars, peers>>

\* HEARTBEAT: the maximum is stored in self.term, the role set to SECONDARY,
\* and the OK response returns to the sender
heartbeat_stored(t) ==
    /\ rpc[t].stage = "store_term"
    /\ LET n == Peer(t)
       IN  /\ term' = [term EXCEPT ![n] = rpc[t].tmp]
           /\ role' = [role EXCEPT ![n] = SECONDARY]
    /\ rpc' = [rpc EXCEPT ![t] = NoRpc]
    /\ thr' = [thr EXCEPT ![t] = AfterPeer(t, FALSE)]
    /\ UNCHANGED <<voted_for, primary_node, expired, now, last_heartbeat,
                   kvstore, nclient, nelect, nbeats>>
    /\ UNCHANGED <<nodeVars, peers>>

\* VOTE_REQUEST: `if candidate_term > self.term`, with the value of self.term
\* that the comparison read kept in tmp
vote_request_received(t) ==
    /\ Sending(t)
    /\ Up(Peer(t))
    /\ MsgOp(t) = "VOTE_REQUEST"
    /\ rpc[t].stage = "none"
    /\ rpc' = [rpc EXCEPT ![t] =
                  [stage |-> IF thr[t].term > term[Peer(t)] THEN "raise_term" ELSE "decide",
                   tmp |-> term[Peer(t)]]]
    /\ UNCHANGED <<role, term, voted_for, primary_node, expired, now, last_heartbeat,
                   kvstore, thr, nclient, nelect, nbeats>>
    /\ UNCHANGED <<nodeVars, peers>>

\* VOTE_REQUEST: self.term = candidate_term; self.voted_for = None
vote_term_raised(t) ==
    /\ rpc[t].stage = "raise_term"
    /\ LET n == Peer(t)
       IN  /\ term' = [term EXCEPT ![n] = thr[t].term]
           /\ voted_for' = [voted_for EXCEPT ![n] = None]
    /\ rpc' = [rpc EXCEPT ![t].stage = "decide"]
    /\ UNCHANGED <<role, primary_node, expired, now, last_heartbeat,
                   kvstore, thr, nclient, nelect, nbeats>>
    /\ UNCHANGED <<nodeVars, peers>>

\* the voter's decision: granted if voted_for is None or the candidate
VoteGranted(n, candidate_id) == voted_for[n] = None \/ voted_for[n] = candidate_id

\* VOTE_REQUEST: the decision is made and recorded; the response reaches the
\* candidate (delivered) or is lost to its socket timeout
vote_decided(t, delivered) ==
    /\ rpc[t].stage = "decide"
    /\ LET n == Peer(t)
           grant == VoteGranted(n, Owner(t))
       IN  /\ voted_for' = IF grant THEN [voted_for EXCEPT ![n] = Owner(t)] ELSE voted_for
           /\ thr' = [thr EXCEPT ![t] =
                         [AfterPeer(t, grant /\ delivered) EXCEPT
                             !.granted = IF grant THEN thr[t].granted \cup {n}
                                         ELSE thr[t].granted]]
    /\ rpc' = [rpc EXCEPT ![t] = NoRpc]
    /\ UNCHANGED <<role, term, primary_node, expired, now, last_heartbeat,
                   kvstore, nclient, nelect, nbeats>>
    /\ UNCHANGED <<nodeVars, peers>>

\* REPLICATE applied by no node
Applies_never(n) == FALSE

\* REPLICATE applied by every node that is not PRIMARY, a CANDIDATE included
Applies_not_primary(n) == role[n] # PRIMARY

\* REPLICATE: `if self.role == NodeRole.SECONDARY`
Applies(n) == role[n] = SECONDARY

\* REPLICATE: a SECONDARY applies the wrapped operation to its own store;
\* any other node only answers OK
replicate_received(t) ==
    /\ Sending(t)
    /\ Up(Peer(t))
    /\ MsgOp(t) = "REPLICATE"
    /\ rpc[t].stage = "none"
    /\ LET n == Peer(t)
       IN  /\ kvstore' = IF Applies(n)
                         THEN [kvstore EXCEPT ![n] = KvApply(kvstore[n], thr[t].req).kv]
                         ELSE kvstore
           /\ thr' = [thr EXCEPT ![t] =
                         [AfterPeer(t, FALSE) EXCEPT !.seen = thr[t].seen \cup {<<n, role[n]>>}]]
    /\ UNCHANGED <<role, term, voted_for, primary_node, expired, now, last_heartbeat,
                   rpc, nclient, nelect, nbeats>>
    /\ UNCHANGED <<nodeVars, peers>>

----------------------------------------------------------------------------
(* The heartbeat thread: ClusterNode._heartbeat_loop *)

\* No heartbeat has arrived for longer than heartbeat_timeout, at a node whose
\* heartbeat loop looks at the time (one that is not PRIMARY).  This is time
\* passing in the specifications that do not count the seconds (no Tick).
HeartbeatTimeout(n) ==
    /\ ~expired[n]
    /\ role[n] # PRIMARY
    /\ expired' = [expired EXCEPT ![n] = TRUE]
    /\ UNCHANGED <<role, term, voted_for, primary_node, now, last_heartbeat,
                   kvstore, thr, rpc, nclient, nelect, nbeats>>
    /\ UNCHANGED <<nodeVars, peers>>

\* _send_heartbeats: a PRIMARY builds the HEARTBEAT message with its term
send_heartbeats_upto(n, limit) ==
    /\ thr[<<HB, n>>].pc = "idle"
    /\ role[n] = PRIMARY
    /\ nbeats < limit
    /\ nbeats' = nbeats + 1
    /\ thr' = [thr EXCEPT ![<<HB, n>>] =
                  NextPeer(<<HB, n>>, [IdleThread EXCEPT !.pc = "heartbeats", !.term = term[n]],
                           FALSE)]
    /\ UNCHANGED <<role, term, voted_for, primary_node, expired, now, last_heartbeat,
                   kvstore, rpc, nclient, nelect>>
    /\ UNCHANGED <<nodeVars, peers>>

\* _start_election, entered when the node is not PRIMARY and the heartbeat
\* timeout has passed: role = CANDIDATE, and self.term is read for `+= 1`.
\* The coordinator lock it holds is taken by no other thread of the node.
start_election_upto(n, limit) ==
    /\ thr[<<HB, n>>].pc = "idle"
    /\ role[n] # PRIMARY
    /\ expired[n]
    /\ nelect < limit
    /\ nelect' = nelect + 1
    /\ role' = [role EXCEPT ![n] = CANDIDATE]
    /\ thr' = [thr EXCEPT ![<<HB, n>>] =
                  [IdleThread EXCEPT !.pc = "increment", !.tmp = term[n]]]
    /\ UNCHANGED <<term, voted_for, primary_node, expired, now, last_heartbeat,
                   kvstore, rpc, nclient, nbeats>>
    /\ UNCHANGED <<nodeVars, peers>>

start_election(n) == start_election_upto(n, MaxElections)

send_heartbeats(n) == send_heartbeats_upto(n, MaxHeartbeats)

\* the incremented term is stored; voted_for = node_id; votes = 1
term_incremented(n) ==
    /\ thr[<<HB, n>>].pc = "increment"
    /\ term' = [term EXCEPT ![n] = thr[<<HB, n>>].tmp + 1]
    /\ voted_for' = [voted_for EXCEPT ![n] = n]
    /\ thr' = [thr EXCEPT ![<<HB, n>>] =
                  [IdleThread EXCEPT !.pc = "message", !.votes = 1]]
    /\ UNCHANGED <<role, primary_node, expired, now, last_heartbeat,
                   kvstore, rpc, nclient, nelect, nbeats>>
    /\ UNCHANGED <<nodeVars, peers>>

\* the VOTE_REQUEST message is built with self.term as it is now
vote_request_built(n) ==
    /\ thr[<<HB, n>>].pc = "message"
    /\ thr' = [thr EXCEPT ![<<HB, n>>] =
                  NextPeer(<<HB, n>>, [@ EXCEPT !.pc = "votes", !.term = term[n]], FALSE)]
    /\ UNCHANGED <<role, term, voted_for, primary_node, expired, now, last_heartbeat,
                   kvstore, rpc, nclient, nelect, nbeats>>
    /\ UNCHANGED <<nodeVars, peers>>

\* a vote of another node needed besides the candidate's own
Majority_of_others(n, votes) == votes > 1

\* votes > (len(self.peers) + 1) // 2
Majority(n, votes) == votes > (Len(Peers(n)) + 1) \div 2

\* the end of _start_election: PRIMARY on a majority, SECONDARY otherwise
election_decided(n) ==
    /\ thr[<<HB, n>>].pc = "tally"
    /\ IF Majority(n, thr[<<HB, n>>].votes)
       THEN /\ role' = [role EXCEPT ![n] = PRIMARY]
            /\ primary_node' = [primary_node EXCEPT ![n] = n]
       ELSE /\ role' = [role EXCEPT ![n] = SECONDARY]
            /\ UNCHANGED primary_node
    /\ thr' = [thr EXCEPT ![<<HB, n>>] = IdleThread]
    /\ UNCHANGED <<term, voted_for, expired, now, last_heartbeat,
                   kvstore, rpc, nclient, nelect, nbeats>>
    /\ UNCHANGED <<nodeVars, peers>>

----------------------------------------------------------------------------
(* Client requests at a cluster node: ClusterNode._process_request *)

\* write gating treating only a SECONDARY, not a CANDIDATE, as not primary
NotPrimary_secondary(n) == role[n] = SECONDARY

\* `if self.role != NodeRole.PRIMARY`
NotPrimary(n) == role[n] # PRIMARY

\* `except Exception as e` answering OK instead of ERROR
FailureReply_ok(exc) == OkResp(TRUE)

\* `except Exception as e: return {'status': 'ERROR', 'message': str(e)}`
FailureReply(exc) == ErrorResp(exc)

\* A request is read from a client connection.  One with the name of a cluster
\* message goes to _handle_cluster_message, which for a name that is not
\* HEARTBEAT, VOTE_REQUEST or REPLICATE falls through to its last return (those
\* three are the calls of the peers, above).  A write at a node that is not
\* PRIMARY is refused; a GET is answered from the store; an operation that is
\* none of these gets the final else; any other write is logged and applied by
\* the KVStore, unless log_operation raises (io), which ends the request with
\* the ERROR reply of the except clause.
process_request_upto(c, r, io, limit) ==
    /\ thr[c].pc = "idle"
    /\ nclient < limit
    /\ nclient' = nclient + 1
    /\ LET n == Owner(c) IN
       /\ IF r.op \in ClusterMessages
          THEN /\ thr' = [thr EXCEPT ![c] =
                             [IdleThread EXCEPT !.pc = "send", !.req = r,
                                                !.resp = ErrorResp("Unknown cluster message")]]
               /\ UNCHANGED kvstore
          ELSE IF IsMutation(r) /\ NotPrimary(n)
          THEN /\ thr' = [thr EXCEPT ![c] =
                             [IdleThread EXCEPT !.pc = "send", !.req = r,
                                                !.resp = NotPrimaryResp(primary_node[n])]]
               /\ UNCHANGED kvstore
          ELSE IF ~IsMutation(r) /\ r.op # "GET"
          THEN /\ thr' = [thr EXCEPT ![c] =
                             [IdleThread EXCEPT !.pc = "send", !.req = r,
                                                !.resp = ErrorResp("Unknown operation")]]
               /\ UNCHANGED kvstore
          ELSE IF r.op = "GET"
          THEN /\ thr' = [thr EXCEPT ![c] =
                             [IdleThread EXCEPT !.pc = "send", !.req = r,
                                                !.resp = GetReply(kvstore[n].store, r.key)]]
               /\ UNCHANGED kvstore
          ELSE IF io # None /\ ~DeleteOfAbsent(kvstore[n].store, r)
          THEN /\ kvstore' = [kvstore EXCEPT ![n] = KvFailed(kvstore[n], r, io)]
               /\ thr' = [thr EXCEPT ![c] =
                             [IdleThread EXCEPT !.pc = "send", !.req = r, !.exc = io,
                                                !.resp = FailureReply(io)]]
          ELSE /\ kvstore' = [kvstore EXCEPT ![n] = KvApply(kvstore[n], r).kv]
               /\ thr' = [thr EXCEPT ![c] =
                             [IdleThread EXCEPT !.pc = "applied", !.req = r,
                                                !.success = KvApply(kvstore[n], r).success]]
    /\ UNCHANGED <<role, term, voted_for, primary_node, expired, now, last_heartbeat,
                   rpc, nelect, nbeats>>
    /\ UNCHANGED <<nodeVars, peers>>

process_request(n, r, io) == process_request_upto(<<CONN, n>>, r, io, MaxClusterRequests)

\* after the KVStore call: `if self.role == NodeRole.PRIMARY:
\* self._replicate_operation(request)`, else the OK reply at once
replicate_operation(c) ==
    /\ thr[c].pc = "applied"
    /\ thr' = [thr EXCEPT ![c] =
                  IF role[Owner(c)] = PRIMARY
                  THEN NextPeer(c, [@ EXCEPT !.pc = "replicate"], FALSE)
                  ELSE [@ EXCEPT !.pc = "send", !.resp = OkResp(thr[c].success)]]
    /\ UNCHANGED <<role, term, voted_for, primary_node, expired, now, last_heartbeat,
                   kvstore, rpc, nclient, nelect, nbeats>>
    /\ UNCHANGED <<nodeVars, peers>>

\* client_socket.sendall(response)
reply_sent(c) ==
    /\ thr[c].pc = "send"
    /\ thr' = [thr EXCEPT ![c] = IdleThread]
    /\ UNCHANGED <<role, term, voted_for, primary_node, expired, now, last_heartbeat,
                   kvstore, rpc, nclient, nelect, nbeats>>
    /\ UNCHANGED <<nodeVars, peers>>

----------------------------------------------------------------------------
(* The cluster under any timing of heartbeats, elections and client requests *)

NextCluster ==
    \/ \E t \in Threads : PeerFails(t)
    \/ \E t \in Threads : heartbeat_received(t)
    \/ \E t \in Threads : heartbeat_stored(t)
    \/ \E t \in Threads : vote_request_received(t)
    \/ \E t \in Threads : vote_term_raised(t)
    \/ \E t \in Threads, delivered \in BOOLEAN : vote_decided(t, delivered)
    \/ \E t \in Threads : replicate_received(t)
    \/ \E n \in Nodes : HeartbeatTimeout(n)
    \/ \E n \in Nodes : send_heartbeats(n)
    \/ \E n \in Nodes : start_election(n)
    \/ \E n \in Nodes : term_incremented(n)
    \/ \E n \in Nodes : vote_request_built(n)
    \/ \E n \in Nodes : election_decided(n)
    \/ \E n \in Nodes, r \in ClusterRequests, io \in IoOutcomes : process_request(n, r, io)
    \/ \E n \in Nodes : replicate_operation(<<CONN, n>>)
    \/ \E n \in Nodes : reply_sent(<<CONN, n>>)

SpecCluster == Init /\ [][NextCluster]_vars

----------------------------------------------------------------------------
(* Elections and heartbeats alone: the heartbeat threads of the three nodes *)
(* and the handlers that serve their calls, with no client requests.  A     *)
(* call fails before the peer handles it or its response is delivered.      *)

HeartbeatThreads == {HB} \X Nodes

NextElection ==
    \/ \E t \in HeartbeatThreads : PeerFails(t)
    \/ \E t \in HeartbeatThreads : heartbeat_received(t)
    \/ \E t \in HeartbeatThreads : heartbeat_stored(t)
    \/ \E t \in HeartbeatThreads : vote_request_received(t)
    \/ \E t \in HeartbeatThreads : vote_term_raised(t)
    \/ \E t \in HeartbeatThreads : vote_decided(t, TRUE)
    \/ \E n \in Nodes : HeartbeatTimeout(n)
    \/ \E n \in Nodes : send_heartbeats(n)
    \/ \E n \in Nodes : start_election_upto(n, MaxVoteElections)
    \/ \E n \in Nodes : term_incremented(n)
    \/ \E n \in Nodes : vote_request_built(n)
    \/ \E n \in Nodes : election_decided(n)

SpecElection == Init /\ [][NextElection]_vars

----------------------------------------------------------------------------
(* Heartbeats on the clock.  The loop of a primary sends one round of       *)
(* heartbeats per period (its sleep of 1.0 s); one secondary receives a     *)
(* heartbeat in every period, while calls to and from the other secondary   *)
(* may fail.                                                                *)

\* time.sleep(1.0) in _heartbeat_loop
HEARTBEAT_PERIOD == 1

\* a timeout shorter than the period between two heartbeats
heartbeat_timeout_short == HEARTBEAT_PERIOD - 1

\* self.heartbeat_timeout = 5.0
heartbeat_timeout == 5

\* the secondary that every heartbeat reaches, and the one that can be cut off
Fed == "n1"
CutOff == "n2"

\* One period passes, in which the rounds of heartbeats were sent and one
\* has reached the secondary Fed; `time.time() - self.last_heartbeat >
\* self.heartbeat_timeout` is what the loop of each node now finds.
Tick ==
    /\ now < MaxTicks
    /\ \A n \in Nodes : role[n] = PRIMARY => thr[<<HB, n>>].pc = "idle"
    /\ primary_node[Fed] # None
    /\ last_heartbeat[Fed] = now
    /\ now' = now + HEARTBEAT_PERIOD
    /\ expired' = [n \in Nodes |-> now' - last_heartbeat[n] > heartbeat_timeout]
    /\ UNCHANGED <<role, term, voted_for, primary_node, last_heartbeat,
                   kvstore, thr, rpc, nclient, nelect, nbeats>>
    /\ UNCHANGED <<nodeVars, peers>>

\* By the end of the period that began at second `now`, each of the two nodes
\* that can be PRIMARY has sent at most one round of heartbeats a period.  A
\* call to or from the secondary that is cut off fails.
NextTimed ==
    \/ Tick
    \/ \E n \in Nodes : send_heartbeats_upto(n, 2 * (now + 1))
    \/ \E t \in HeartbeatThreads : PeerFails(t) /\ CutOff \in {Owner(t), Peer(t)}
    \/ \E t \in HeartbeatThreads : heartbeat_received(t)
    \/ \E t \in HeartbeatThreads : heartbeat_stored(t)
    \/ \E t \in HeartbeatThreads : vote_request_received(t)
    \/ \E t \in HeartbeatThreads : vote_term_raised(t)
    \/ \E t \in HeartbeatThreads : vote_decided(t, TRUE)
    \/ \E n \in Nodes : start_election(n)
    \/ \E n \in Nodes : term_incremented(n)
    \/ \E n \in Nodes : vote_request_built(n)
    \/ \E n \in Nodes : election_decided(n)

SpecTimed == Init /\ [][NextTimed]_vars

----------------------------------------------------------------------------
(* Replication alone: the primary serves two client connections, each on    *)
(* its own thread, and no election or heartbeat changes a role.             *)

PrimaryConnections == {<<CONN, Bootstrap>>, <<CONN2, Bootstrap>>}

NextReplication ==
    \/ \E c \in PrimaryConnections, r \in ClusterRequests, io \in IoOutcomes :
           process_request_upto(c, r, io, MaxReplicatedRequests)
    \/ \E c \in PrimaryConnections : replicate_operation(c)
    \/ \E c \in PrimaryConnections : PeerFails(c)
    \/ \E c \in PrimaryConnections : replicate_received(c)
    \/ \E c \in PrimaryConnections : reply_sent(c)

SpecReplication == Init /\ [][NextReplication]_vars

----------------------------------------------------------------------------
(* Failover, as in test_primary_failover: the primary has been killed, the  *)
(* two other nodes stay up and every call between them is delivered.        *)

Survivors == Nodes \ {Bootstrap}

InitFailover ==
    /\ InitServer
    /\ role = [n \in Nodes |-> IF n = Bootstrap THEN CRASHED ELSE SECONDARY]
    /\ term = [n \in Nodes |-> 0]
    /\ voted_for = [n \in Nodes |-> None]
    /\ primary_node = [n \in Nodes |-> Bootstrap]
    /\ peers = [n \in Nodes |-> ClusterPeers(n)]
    /\ expired = [n \in Nodes |-> FALSE]
    /\ now = 0
    /\ last_heartbeat = [n \in Nodes |-> 0]
    /\ kvstore = [n \in Nodes |-> [store |-> EmptyStore, wal |-> << >>]]
    /\ thr = [t \in Threads |-> IdleThread]
    /\ rpc = [t \in Threads |-> NoRpc]
    /\ nclient = 0
    /\ nelect = 0
    /\ nbeats = 0

\* a call to the killed node: the connection is refused
connection_refused(t) == PeerFails(t) /\ ~Up(Peer(t))

\* the steps of the heartbeat thread of node n, with those of the peers'
\* handlers that serve its calls
HeartbeatLoop(n) ==
    LET t == <<HB, n>>
    IN  \/ send_heartbeats(n)
        \/ start_election_upto(n, MaxFailoverElections)
        \/ term_incremented(n)
        \/ vote_request_built(n)
        \/ election_decided(n)
        \/ connection_refused(t)
        \/ heartbeat_received(t)
        \/ heartbeat_stored(t)
        \/ vote_request_received(t)
        \/ vote_term_raised(t)
        \/ vote_decided(t, TRUE)

NextFailover ==
    \/ \E n \in Survivors : HeartbeatTimeout(n)
    \/ \E n \in Survivors : HeartbeatLoop(n)

\* time passes at every survivor and its heartbeat loop keeps running
FairFailover ==
    \A n \in Survivors : WF_vars(HeartbeatTimeout(n)) /\ WF_vars(HeartbeatLoop(n))

SpecFailover == InitFailover /\ [][NextFailover]_vars /\ FairFailover

----------------------------------------------------------------------------
(* A cluster of one: a node started with an empty --peers and without       *)
(* --primary, serving one client connection.  Its heartbeat loop makes one  *)
(* pass per period.                                                         *)

Solo == "n1"

InitSolo ==
    /\ InitServer
    /\ role = [n \in Nodes |-> SECONDARY]
    /\ term = [n \in Nodes |-> 0]
    /\ voted_for = [n \in Nodes |-> None]
    /\ primary_node = [n \in Nodes |-> None]
    /\ peers = [n \in Nodes |-> << >>]
    /\ expired = [n \in Nodes |-> FALSE]
    /\ now = 0
    /\ last_heartbeat = [n \in Nodes |-> 0]
    /\ kvstore = [n \in Nodes |-> [store |-> EmptyStore, wal |-> << >>]]
    /\ thr = [t \in Threads |-> IdleThread]
    /\ rpc = [t \in Threads |-> NoRpc]
    /\ nclient = 0
    /\ nelect = 0
    /\ nbeats = 0

\* time.sleep(1.0) of the next pass of the loop: the pass before it is over
\* (a node that is not PRIMARY and found the timeout passed has run its
\* election); the test of the timeout is what the new pass will find
sleep(n) ==
    /\ now < MaxTicks
    /\ thr[<<HB, n>>].pc = "idle"
    /\ role[n] = PRIMARY \/ ~expired[n]
    /\ now' = now + HEARTBEAT_PERIOD
    /\ expired' = [expired EXCEPT ![n] = now' - last_heartbeat[n] > heartbeat_timeout]
    /\ UNCHANGED <<role, term, voted_for, primary_node, last_heartbeat,
                   kvstore, thr, rpc, nclient, nelect, nbeats>>
    /\ UNCHANGED <<nodeVars, peers>>

NextSolo ==
    \/ sleep(Solo)
    \/ start_election(Solo)
    \/ term_incremented(Solo)
    \/ vote_request_built(Solo)
    \/ election_decided(Solo)
    \/ send_heartbeats(Solo)
    \/ \E r \in ClusterRequests, io \in IoOutcomes :
           process_request_upto(<<CONN, Solo>>, r, io, MaxReplicatedRequests)
    \/ replicate_operation(<<CONN, Solo>>)
    \/ reply_sent(<<CONN, Solo>>)

\* the heartbeat thread keeps running: it sleeps, and it goes through the
\* election it has started
SpecSolo ==
    /\ InitSolo
    /\ [][NextSolo]_vars
    /\ WF_vars(sleep(Solo))
    /\ WF_vars(start_election(Solo) \/ term_incremented(Solo) \/ vote_request_built(Solo)
                  \/ election_decided(Solo))

----------------------------------------------------------------------------
(* Properties of the single node *)

\* keys whose last mutation may or may not have been acknowledged
Unsure == lost \cup InFlightKeys

\* a store in which every key was last written by one and the same batch
Uniform(s) == \E items \in BulkInputs : s = PutAll(EmptyStore, items)

\* C1 (durability): once the node has been stopped and started again, every key
\* whose mutations were all acknowledged is served with the binding the last of
\* them gave it: a set value is present with that value, a deleted key is absent.
C1_Durability ==
    (stops > 0 /\ proc # "down") =>
        \A k \in Keys \ Unsure :
            /\ k \in DOMAIN acked =>
                   (proc = "up" /\ k \in DOMAIN store /\ store[k] = acked[k])
            /\ (k \notin DOMAIN acked /\ proc = "up") => k \notin DOMAIN store

\* C2 (batch atomicity): whenever a restart recovers a store, under clients that
\* only send batches, that store holds all the bindings of one batch or none of
\* any: never part of a batch.
C2_BatchAtomicity == [][(proc = "down" /\ proc' = "up") => Uniform(store')]_vars

\* a batch was cut short by a kill before its reply, and the restart recovered all of it
C2_Witness ==
    /\ proc = "up"
    /\ stops > 0
    /\ nreq = 1
    /\ lost = Keys
    /\ DOMAIN store = Keys

\* the reply the claim expects of a GET: OK with the value for a key that is
\* bound (to any value of the data model), NOT_FOUND for a key that is not
ExpectedGet(s, k) == IF k \in DOMAIN s THEN ValueResp(s[k]) ELSE NotFoundResp

\* C4 (read-your-writes): a GET of a key whose mutations have all been
\* acknowledged is answered with the value of the last SET or BULK_SET of the
\* key, and with NOT_FOUND if the last was a DELETE or there was none.
C4_ReadYourWrites ==
    [][\A c \in Clients :
          (pc[c] = "idle" /\ pc'[c] = "send" /\ req'[c].op = "GET"
             /\ req'[c].key \notin Unsure)
          => resp'[c] = ExpectedGet(acked, req'[c].key)]_vars

\* C5 (batch isolation): under clients that send batches over the same keys,
\* whenever the store lock is free (so that another operation can observe the
\* store) all keys hold the values of one and the same batch.
C5_BatchIsolation == (proc = "up" /\ lock = {}) => Uniform(store)

\* one connection has applied its batch and not yet replied while another is
\* half way through applying a different batch
C5_Witness ==
    \E c, d \in Clients :
        /\ pc[c] = "send" /\ req[c].op = "BULK_SET" /\ req[c].items # NoItems
        /\ pc[d] = "mem" /\ idx[d] = 2 /\ req[d].items # req[c].items
        /\ ~Uniform(store)

\* replay as the specification describes it: complete records in order, a
\* truncated last record (short length prefix or short payload) discarded
RECURSIVE TolerantFrom(_, _, _)
TolerantFrom(file, pos, ops) ==
    IF pos + 3 > Len(file) THEN [ops |-> ops, torn |-> pos <= Len(file)]
    ELSE LET length == FromBytes(SubSeq(file, pos, pos + 3))
         IN  IF pos + 3 + length > Len(file) THEN [ops |-> ops, torn |-> TRUE]
             ELSE TolerantFrom(file, pos + 4 + length,
                               Append(ops, PickleLoads(SubSeq(file, pos + 4, pos + 3 + length)).op))

TolerantReplay(file) == TolerantFrom(file, 1, << >>)

\* C8 (torn tail): a restart on a WAL that ends in a truncated record, with a
\* checkpoint that is absent or loads, completes, and the recovered store is
\* the checkpoint with the complete records applied in order.
C8_TornTailTolerated ==
    [][LET ck == IF dataFile.exists THEN PickleLoadStore(dataFile.bytes)
                 ELSE [ok |-> TRUE, store |-> EmptyStore]
           rp == TolerantReplay(walFile)
       IN  (proc = "down" /\ proc' # "down" /\ ck.ok /\ rp.torn) =>
               (proc' = "up" /\ store' = ApplyOps(ck.store, rp.ops))]_vars

\* C9 (replay idempotence): once recovery has applied the WAL to the checkpoint,
\* applying the same WAL to the result changes nothing; and when that result
\* has been written as the new checkpoint with the WAL still in place, a
\* recovery from the two gives the same store again.
C9_ReplayIdempotent ==
    proc = "up" =>
        /\ ApplyOps(store, replay(walFile).ops) = store
        /\ tpc[CK] = "trunc" => LoadFromDisk(dataFile, walFile) = [ok |-> TRUE, store |-> store]

\* a recovery that started from the checkpoint of an earlier recovery and the
\* WAL that recovery had already applied, with a delete in the WAL
C9_Witness ==
    /\ proc = "up"
    /\ stops = 1
    /\ dataFile.exists
    /\ \E i \in 1..Len(replay(walFile).ops) : replay(walFile).ops[i].type = "delete"
    /\ PickleLoadStore(dataFile.bytes).store # store
    /\ DOMAIN store # {}

\* C10 (graceful restart): after acknowledged mutations that left some key
\* bound, a shutdown signal that found every client idle and every mutation
\* acknowledged, and the restart that follows, the node is up and a GET of
\* every key is answered as it was before the shutdown.
C10_GracefulRestart ==
    (shutdown = "quiet" /\ proc # "down" /\ tpc[MAIN] = "serve" /\ DOMAIN acked # {}) =>
        (proc = "up" /\ \A k \in Keys : GetReply(store, k) = GetReply(acked, k))

\* C15 (NOT_FOUND only for an absent key): a GET of a key that a SET has bound,
\* to any value of the data model, null included, is answered OK with that value.
C15_NotFoundOnlyForAbsent ==
    [][\A c \in Clients :
          (pc[c] = "idle" /\ pc'[c] = "send" /\ req'[c].op = "GET"
             /\ req'[c].key \in DOMAIN store)
          => resp'[c] = ValueResp(store[req'[c].key])]_vars

\* C16 (atomic checkpoint replacement): whenever data.pkl exists on disk, while
\* the process runs and after it was killed, it is a complete checkpoint: never
\* an empty or partly written file.
C16_AtomicCheckpoint == dataFile.exists => PickleLoadStore(dataFile.bytes).ok

\* C17 (invalid checkpoint fallback): a start on a data.pkl that exists and does
\* not load, with a WAL that replays, completes: the node is up with the store
\* the WAL gives from the empty store.
C17_InvalidCheckpointFallback ==
    [][(proc = "down" /\ proc' # "down" /\ dataFile.exists
          /\ ~PickleLoadStore(dataFile.bytes).ok /\ replay(walFile).ok)
       => (proc' = "up" /\ store' = ApplyOps(EmptyStore, replay(walFile).ops))]_vars

\* C18 (frame of DELETE): a DELETE of a key that is absent goes straight to the
\* reply OK with success false, the WAL and the store as they were; a DELETE of
\* a key that is present appends exactly one delete record of the key (the
\* store still as it was), then removes the key and replies OK with success true.
C18_DeleteFrame ==
    [][\A c \in Clients :
          /\ (pc[c] = "idle" /\ pc'[c] # "idle" /\ req'[c].op = "DELETE"
                 /\ req'[c].key \notin DOMAIN store)
             => (pc'[c] = "send" /\ resp'[c] = OkResp(FALSE)
                   /\ walFile' = walFile /\ store' = store)
          /\ (pc[c] = "idle" /\ pc'[c] # "idle" /\ req'[c].op = "DELETE"
                 /\ req'[c].key \in DOMAIN store)
             => (pc'[c] = "log" /\ walFile' = walFile /\ store' = store)
          /\ (pc[c] = "log" /\ pc'[c] = "mem" /\ req[c].op = "DELETE")
             => (walFile' = walFile \o Frame(DeleteOp(req[c].key)) /\ store' = store)
          /\ (pc[c] = "mem" /\ pc'[c] = "send" /\ req[c].op = "DELETE")
             => (req[c].key \in DOMAIN store /\ store' = Pop(store, req[c].key)
                   /\ resp'[c] = OkResp(TRUE) /\ walFile' = walFile)]_vars

\* a key that a SET had bound has been deleted: the delete record is the last
\* of the WAL, the key is gone and the reply about to be sent says true
C18_Witness ==
    \E c \in Clients :
        /\ pc[c] = "send" /\ req[c].op = "DELETE" /\ resp[c] = OkResp(TRUE)
        /\ req[c].key \notin DOMAIN store
        /\ replay(walFile).ok
        /\ Len(replay(walFile).ops) = 2
        /\ replay(walFile).ops[1].type = "set"
        /\ replay(walFile).ops[2] = DeleteOp(req[c].key)

\* C19 (malformed JSON): a message that is not valid JSON is answered on its
\* connection with an ERROR reply that carries a message, the store and the
\* WAL as they were.
C19_MalformedJsonReply ==
    [][\A c \in Clients :
          (pc[c] = "idle" /\ req'[c] = BadJson)
          => (pc'[c] = "send" /\ resp'[c].status = "ERROR" /\ resp'[c].message # ""
                /\ store' = store /\ walFile' = walFile)]_vars

Binds(op, k, v) ==
    \/ op.type = "set" /\ op.key = k /\ op.value = v
    \/ op.type = "bulk_set" /\ \E i \in 1..Len(op.items) : op.items[i] = <<k, v>>

\* with store s in memory, checkpoint file data and WAL file wal: every key
\* bound in s is bound to the same value by the checkpoint or by a record of
\* the WAL, and every key absent from s that the checkpoint binds is deleted
\* by a record of the WAL
OnDisk(s, data, wal) ==
    LET ck == IF data.exists THEN PickleLoadStore(data.bytes).store ELSE EmptyStore
        ops == replay(wal).ops
    IN  \A k \in Keys :
           IF k \in DOMAIN s
           THEN \/ k \in DOMAIN ck /\ ck[k] = s[k]
                \/ \E i \in 1..Len(ops) : Binds(ops[i], k, s[k])
           ELSE \/ k \notin DOMAIN ck
                \/ \E i \in 1..Len(ops) : ops[i] = DeleteOp(k)

\* C28 (write-ahead ordering): the record of a SET, of a DELETE of a present
\* key and of a BULK_SET is appended to the WAL with the store still as it
\* was; the store changes only in a thread whose record is the last of the
\* WAL; the OK reply of such a mutation is produced only by the thread's last
\* store update; and in every state of a running node each binding of the
\* store, and each removal, is in the checkpoint or in a record of the WAL.
C28_WriteAhead ==
    [][/\ \A c \in Clients :
             /\ (pc[c] = "log" /\ pc'[c] = "mem")
                => (walFile' = walFile \o Frames(LogRecords(req[c])) /\ store' = store)
             /\ (pc[c] # "send" /\ pc'[c] = "send" /\ IsMutation(req'[c])
                    /\ resp'[c] = OkResp(TRUE))
                => pc[c] = "mem"
       /\ (proc = "up" /\ proc' = "up" /\ store' # store)
          => \E c \in Clients :
                /\ pc[c] = "mem" /\ lock = {c}
                /\ replay(walFile).ok
                /\ Len(replay(walFile).ops) > 0
                /\ <<replay(walFile).ops[Len(replay(walFile).ops)]>> = LogRecords(req[c])
       /\ proc' = "up" => OnDisk(store', dataFile', walFile')]_vars

\* the keys the records of WAL file wal set or delete
WalKeys(wal) ==
    {k \in Keys : \E i \in 1..Len(replay(wal).ops) :
                     \/ replay(wal).ops[i] = DeleteOp(k)
                     \/ \E v \in Values : Binds(replay(wal).ops[i], k, v)}

\* store s binds every key of the WAL as the last record of the key left it
AgreesWithWal(s, wal) ==
    \A k \in WalKeys(wal) :
        LET last == ApplyOps(EmptyStore, replay(wal).ops)
        IN  /\ k \in DOMAIN s <=> k \in DOMAIN last
            /\ DictGet(s, k) = DictGet(last, k)

RequestOf(op) ==
    CASE op.type = "set" -> SetReq(op.key, op.value)
      [] op.type = "delete" -> DeleteReq(op.key)
      [] op.type = "bulk_set" -> BulkReq(op.items)

\* the store after the live operations of the records ops, run in order on s
RECURSIVE LiveEffects(_, _)
LiveEffects(s, ops) ==
    IF ops = << >> THEN s ELSE LiveEffects(Effect(s, RequestOf(ops[1])), Tail(ops))

\* C32 (recovery is read-only on disk): a start that recovers leaves the WAL
\* file and the checkpoint file as they were, and its store is the checkpoint
\* with the live operation of each replayed record applied in order; the
\* files still recover to that store, and a kill of the recovered node (no
\* checkpoint file write and no mutation in progress) leaves files that
\* recover to it again.
C32_RecoveryReadOnly ==
    [][/\ (proc = "down" /\ proc' = "up")
          => /\ walFile' = walFile
             /\ dataFile' = dataFile
             /\ store' = LiveEffects(IF dataFile.exists
                                      THEN PickleLoadStore(dataFile.bytes).store
                                      ELSE EmptyStore,
                                     replay(walFile).ops)
             /\ LoadFromDisk(dataFile', walFile') = [ok |-> TRUE, store |-> store']
       /\ (/\ proc = "up" /\ proc' = "down"
           /\ \A t \in {CK, MAIN} : tpc[t] # "dump"
           /\ \A c \in Clients : pc[c] \in {"idle", "send", "closed"})
          => LoadFromDisk(dataFile', walFile') = [ok |-> TRUE, store |-> store]]_vars

\* a node that recovered, was killed and has recovered again, from a
\* checkpoint and a WAL that changes it
C32_Witness ==
    /\ proc = "up" /\ stops = 1
    /\ walFile # << >> /\ dataFile.exists
    /\ store # EmptyStore
    /\ store # PickleLoadStore(dataFile.bytes).store
    /\ store = LoadFromDisk(dataFile, walFile).store

----------------------------------------------------------------------------
(* Properties of the cluster *)

\* C3 (primary uniqueness per term): no two nodes are PRIMARY with equal terms.
C3_OnePrimaryPerTerm ==
    \A m, n \in Nodes :
        (m # n /\ role[m] = PRIMARY /\ role[n] = PRIMARY) => term[m] # term[n]

\* C6 (write gating): a SET, DELETE or BULK_SET received by a node that is not
\* PRIMARY is answered ERROR "Not primary" with the primary address the node
\* holds (None if it holds none); the node's store and WAL stay as they were
\* and the thread goes straight to sending the reply, with no call to a peer.
C6_WriteGating ==
    [][\A n \in Nodes :
          (thr[<<CONN, n>>].pc = "idle" /\ thr'[<<CONN, n>>].pc # "idle"
             /\ IsMutation(thr'[<<CONN, n>>].req) /\ role[n] # PRIMARY)
          => /\ thr'[<<CONN, n>>].pc = "send"
             /\ thr'[<<CONN, n>>].resp = NotPrimaryResp(primary_node[n])
             /\ kvstore'[n] = kvstore[n]
             /\ rpc'[<<CONN, n>>] = NoRpc]_vars

\* a candidate in the middle of its election has refused a write, naming the
\* primary it last heard from
C6_Witness ==
    \E n \in Nodes :
        /\ role[n] = CANDIDATE
        /\ thr[<<CONN, n>>].pc = "send"
        /\ IsMutation(thr[<<CONN, n>>].req)
        /\ thr[<<CONN, n>>].resp = NotPrimaryResp(Bootstrap)

\* C7 (monotone term): no step lowers the term of a node.
C7_MonotoneTerm == [][\A n \in Nodes : term'[n] >= term[n]]_vars

\* with stores kv, node p answers a GET of every key that mutation r sets with
\* the value r gave it
HasAppliedIn(kv, p, r) ==
    \A i \in 1..Len(ReqItems(r)) :
        GetReply(kv[p].store, ReqItems(r)[i][1]) = ValueResp(ReqItems(r)[i][2])

HasApplied(p, r) == HasAppliedIn(kvstore, p, r)

\* the peers of n, as a set
PeerSet(n) == {Peers(n)[i] : i \in 1..Len(Peers(n))}

C13_NoAckWithoutLog ==
    [][\A n \in Nodes :
          LET c == <<CONN, n>>
          IN  thr'[c].exc # None =>
                 /\ thr'[c].pc = "send"
                 /\ thr'[c].resp.status = "ERROR"
                 /\ thr'[c].resp.message # ""
                 /\ thr'[c].seen = {}
                 /\ thr[c].exc = None =>
                        /\ thr[c].pc = "idle"
                        /\ IsMutation(thr'[c].req)
                        /\ kvstore'[n].store = kvstore[n].store
                        /\ \A p \in Nodes \ {n} : kvstore'[p] = kvstore[p]
                        /\ rpc' = rpc]_vars

\* the primary is about to send the ERROR reply of a SET whose record reached
\* the WAL file but whose fsync failed; the key is not in its store
C13_Witness ==
    \E n \in Nodes :
        LET th == thr[<<CONN, n>>]
        IN  /\ role[n] = PRIMARY
            /\ th.pc = "send" /\ th.exc = FsyncFails /\ th.req.op = "SET"
            /\ th.resp = ErrorResp(FsyncFails)
            /\ kvstore[n].wal = <<SetOp(th.req.key, th.req.value)>>
            /\ th.req.key \notin DOMAIN kvstore[n].store

\* C14 (best-effort replication): once a mutation has been applied by the
\* KVStore of the node that received it, every step of the request leaves that
\* node's store and WAL as they are, whether a call to a peer fails or not, and
\* the request ends in the reply OK with the success the KVStore returned.
C14_BestEffortReplication ==
    [][\A n \in Nodes :
          LET c == <<CONN, n>>
          IN  (thr[c].pc \in {"applied", "replicate"} /\ thr'[c] # thr[c]) =>
                 /\ kvstore'[n] = kvstore[n]
                 /\ thr'[c].req = thr[c].req
                 /\ thr'[c].pc \in {"replicate", "send"}
                 /\ thr'[c].pc = "send" => thr'[c].resp = OkResp(thr[c].success)]_vars

\* the primary is about to reply OK, success true, to a SET that it holds and
\* whose REPLICATE reached neither peer
C14_Witness ==
    LET th == thr[<<CONN, Bootstrap>>]
    IN  /\ role[Bootstrap] = PRIMARY
        /\ th.pc = "send" /\ th.resp = OkResp(TRUE) /\ th.req.op = "SET"
        /\ th.seen = {<<p, "unreachable">> : p \in PeerSet(Bootstrap)}
        /\ HasApplied(Bootstrap, th.req)
        /\ \A p \in PeerSet(Bootstrap) : kvstore[p].store = EmptyStore

\* the operation strings the dispatch table of the specification names
KnownOps == {"SET", "GET", "DELETE", "BULK_SET", "HEARTBEAT", "VOTE_REQUEST", "REPLICATE"}

\* C20 (unknown operation): a request whose operation string is none of SET,
\* GET, DELETE, BULK_SET, HEARTBEAT, VOTE_REQUEST, REPLICATE is answered ERROR
\* "Unknown operation", by the single node with its store and WAL unchanged,
\* and by a cluster node with its store, WAL, role and term unchanged.
C20_UnknownOperation ==
    [][/\ \A c \in Clients :
             (pc[c] = "idle" /\ pc'[c] # "idle" /\ req'[c] # BadJson
                /\ req'[c].op \notin KnownOps)
             => (pc'[c] = "send" /\ resp'[c] = ErrorResp("Unknown operation")
                   /\ store' = store /\ walFile' = walFile)
       /\ \A n \in Nodes :
             (thr[<<CONN, n>>].pc = "idle" /\ thr'[<<CONN, n>>].pc # "idle"
                /\ thr'[<<CONN, n>>].req.op \notin KnownOps)
             => (thr'[<<CONN, n>>].pc = "send"
                   /\ thr'[<<CONN, n>>].resp = ErrorResp("Unknown operation")
                   /\ kvstore' = kvstore /\ role' = role /\ term' = term)]_vars

Granted(t) == thr'[t].votes = thr[t].votes + 1

\* C22 (vote decision): when a voter decides on a VOTE_REQUEST with term T from
\* candidate c, a request with T below the voter's term is refused and leaves
\* voted_for as it is; with T equal to the voter's term (its own, or adopted
\* from the request) the vote is granted if and only if voted_for is None or c.
C22_VoteDecision ==
    [][\A t \in HeartbeatThreads :
          (rpc[t].stage = "decide" /\ rpc'[t].stage = "none") =>
             LET n == Peer(t)
                 c == Owner(t)
                 T == thr[t].term
             IN  /\ T < term[n] => (~Granted(t) /\ voted_for'[n] = voted_for[n])
                 /\ T = term[n] => (Granted(t) <=> voted_for[n] \in {None, c})]_vars

\* C23 (heartbeat handling): the handler of a HEARTBEAT refreshes
\* last_heartbeat; a HEARTBEAT whose term is below the receiver's leaves the
\* receiver's primary address, role and term as they are.
C23_HeartbeatHandling ==
    [][\A t \in HeartbeatThreads :
          LET n == Peer(t)
          IN  /\ (thr[t].pc = "heartbeats" /\ rpc[t].stage = "none"
                     /\ rpc'[t].stage = "store_term")
                 => /\ ~expired'[n]
                    /\ thr[t].term < term[n] => primary_node'[n] = primary_node[n]
              /\ (rpc[t].stage = "store_term" /\ rpc'[t].stage = "none"
                     /\ thr[t].term < term[n])
                 => (role'[n] = role[n] /\ term'[n] = term[n])]_vars

\* C24 (primary step-down): a PRIMARY whose handler of a HEARTBEAT, or of a
\* VOTE_REQUEST, found the message's term above its own is SECONDARY when the
\* handler returns.
C24_PrimaryStepDown ==
    [][\A t \in HeartbeatThreads :
          LET n == Peer(t)
          IN  /\ (rpc[t].stage = "store_term" /\ rpc'[t].stage = "none"
                     /\ role[n] = PRIMARY /\ thr[t].term > term[n])
                 => role'[n] = SECONDARY
              /\ (rpc[t].stage = "decide" /\ rpc'[t].stage = "none"
                     /\ role[n] = PRIMARY /\ thr[t].term > rpc[t].tmp)
                 => role'[n] = SECONDARY]_vars

\* C25 (election outcome): a candidate counts a vote only for a response with
\* vote_granted true whose term (the voter's term when it answers) equals the
\* candidate's term at that moment; a call that fails counts nothing; and the
\* election ends with the candidate PRIMARY if its votes exceed
\* floor((peers + 1) / 2), SECONDARY otherwise.
C25_ElectionOutcome ==
    [][\A n \in Nodes :
          LET t == <<HB, n>>
          IN  /\ (thr[t].pc = "votes" /\ Granted(t))
                 => /\ rpc[t].stage = "decide"
                    /\ VoteGranted(Peer(t), n)
                    /\ term[Peer(t)] = term[n]
              /\ (thr[t].pc = "tally" /\ thr'[t].pc # "tally")
                 => role'[n] = IF thr[t].votes > (Len(Peers(n)) + 1) \div 2
                               THEN PRIMARY ELSE SECONDARY]_vars

\* C26 (per-primary replication order): when two mutations that the primary
\* committed, on two client connections, have both been replicated, a
\* secondary that applied both binds every key touched by both as the primary
\* does (so it applied them in the order of the primary's commits).
C26_ReplicationOrder ==
    LET a == thr[<<CONN, Bootstrap>>]
        b == thr[<<CONN2, Bootstrap>>]
    IN  (a.pc = "send" /\ b.pc = "send" /\ a.resp = OkResp(TRUE) /\ b.resp = OkResp(TRUE))
        => \A p \in PeerSet(Bootstrap) :
               (<<p, SECONDARY>> \in a.seen /\ <<p, SECONDARY>> \in b.seen)
               => \A k \in ReqKeys(a.req) \cap ReqKeys(b.req) :
                      GetReply(kvstore[p].store, k) = GetReply(kvstore[Bootstrap].store, k)

C33_OneVotePerTerm ==
    \A t, u \in HeartbeatThreads :
        (/\ t # u
         /\ thr[t].pc \in {"votes", "tally"}
         /\ thr[u].pc \in {"votes", "tally"}
         /\ thr[t].term = thr[u].term)
        => thr[t].granted \cap thr[u].granted = {}


\* C34 (voted_for is per-term): every step that raises a node's term leaves
\* voted_for None, or, when the step is the node's own election, the node
\* itself; no vote cast in an older term is carried into the new term.
C34_VotedForPerTerm ==
    [][\A n \in Nodes :
          term'[n] > term[n]
          => \/ voted_for'[n] = None
             \/ /\ thr[<<HB, n>>].pc = "increment"
                /\ thr'[<<HB, n>>].pc = "message"
                /\ voted_for'[n] = n]_vars


\* C35 (candidate demotion sticks): a node becomes PRIMARY only from role
\* CANDIDATE; an election whose candidate was made SECONDARY by the handler
\* of a HEARTBEAT while it collected votes ends with the node SECONDARY,
\* whatever the vote count.
C35_CandidateDemotionSticks ==
    [][\A n \in Nodes :
          /\ (role[n] # PRIMARY /\ role'[n] = PRIMARY) => role[n] = CANDIDATE
          /\ (thr[<<HB, n>>].pc = "tally" /\ thr'[<<HB, n>>].pc # "tally"
                 /\ role[n] = SECONDARY)
             => role'[n] = SECONDARY]_vars


\* no VOTE_REQUEST has changed the term or the vote of node n, and n has
\* started no election
Quiet36(n) ==
    /\ voted_for[n] = None
    /\ \A t \in Threads : (rpc[t].stage \in {"raise_term", "decide"}) => Peer(t) # n

\* a node starts an election only when it is not PRIMARY and more than
\* heartbeat_timeout has passed since its last heartbeat (or the start), and
\* the secondary that receives a heartbeat in every period starts none
ElectionTrigger ==
    /\ \A n \in Nodes :
          (thr[<<HB, n>>].pc = "idle" /\ thr'[<<HB, n>>].pc = "increment")
          => (role[n] # PRIMARY /\ now - last_heartbeat[n] > heartbeat_timeout)
    /\ now' - last_heartbeat'[Fed] <= HEARTBEAT_PERIOD
    /\ thr'[<<HB, Fed>>] = IdleThread
    /\ role'[Fed] = SECONDARY

\* C36 (election trigger), as stated: the above, and the term of the secondary
\* that receives a heartbeat in every period is the term of the primary.
C36_TermOfPrimary ==
    [][/\ ElectionTrigger
       /\ \A p \in Nodes : role'[p] = PRIMARY => term'[Fed] = term'[p]]_vars

\* C36, amended: the term of that secondary is the term of the primary as
\* long as no VOTE_REQUEST has been handled by either of them.
C36_ElectionTrigger ==
    [][/\ ElectionTrigger
       /\ \A p \in Nodes :
             (role'[p] = PRIMARY /\ Quiet36(Fed)' /\ Quiet36(p)')
             => term'[Fed] = term'[p]]_vars

\* the secondary that was cut off has timed out and is asking for votes; the
\* other has received every heartbeat and has the primary's term
C36_Witness ==
    /\ now > heartbeat_timeout
    /\ thr[<<HB, CutOff>>].pc = "votes"
    /\ role[Bootstrap] = PRIMARY /\ role[Fed] = SECONDARY
    /\ now - last_heartbeat[Fed] <= HEARTBEAT_PERIOD
    /\ Quiet36(Fed) /\ term[Fed] = term[Bootstrap]

\* C37 (shutdown versus in-flight writes): after a graceful shutdown that
\* mutations raced with, and the start that follows, every key whose mutations
\* were all replied OK is recovered with the binding the last of them gave it;
\* no mutation replied OK is missing from the recovered store.
C37_ShutdownVersusWrites ==
    (shutdown = "busy" /\ stops > 0 /\ proc # "down" /\ tpc[MAIN] = "serve") =>
        \A k \in Keys \ Unsure :
            /\ k \in DOMAIN acked =>
                   (proc = "up" /\ k \in DOMAIN store /\ store[k] = acked[k])
            /\ (k \notin DOMAIN acked /\ proc = "up") => k \notin DOMAIN store

\* C38 (shutdown post-state): when the graceful shutdown has completed
\* (KVStore.shutdown has returned and the handler is about to exit), data.pkl
\* holds exactly the in-memory store and wal.log is empty.
C38_ShutdownPostState ==
    (proc = "up" /\ tpc[MAIN] = "exit") =>
        /\ dataFile = [exists |-> TRUE, bytes |-> PickleDumpStore(store)]
        /\ walFile = << >>

\* a write that the node Solo, as PRIMARY, reads from its client is logged and
\* applied (unless the log raises), and answered OK
WriteAccepted ==
    LET c == <<CONN, Solo>>
    IN  /\ (thr[c].pc = "idle" /\ thr'[c].pc # "idle" /\ IsMutation(thr'[c].req)
              /\ role[Solo] = PRIMARY /\ thr'[c].exc = None)
           => /\ thr'[c].pc = "applied"
              /\ kvstore'[Solo].store = Effect(kvstore[Solo].store, thr'[c].req)
        /\ (thr[c].pc = "applied" /\ thr'[c].pc # "applied" /\ role[Solo] = PRIMARY)
           => (thr'[c].pc = "send" /\ thr'[c].resp = OkResp(thr[c].success))

\* C39 (single-node auto-election): a node started with no peers and without
\* --primary becomes PRIMARY, in the pass of its heartbeat loop that first
\* finds more than heartbeat_timeout elapsed since startup, on its own vote
\* alone and with term 1; it stays PRIMARY and from then on accepts writes.
C39_SingleNodeElection ==
    /\ <>[](role[Solo] = PRIMARY)
    /\ [][/\ (role[Solo] # PRIMARY /\ role'[Solo] = PRIMARY)
             => /\ now = heartbeat_timeout + HEARTBEAT_PERIOD
                /\ thr[<<HB, Solo>>].votes = 1
                /\ term[Solo] = 1
          /\ role[Solo] = PRIMARY => role'[Solo] = PRIMARY
          /\ WriteAccepted]_vars

\* the node has elected itself and has answered a SET with OK
C39_Witness ==
    /\ Peers(Solo) = << >>
    /\ role[Solo] = PRIMARY
    /\ term[Solo] = 1
    /\ thr[<<CONN, Solo>>].pc = "send"
    /\ thr[<<CONN, Solo>>].req.op = "SET"
    /\ thr[<<CONN, Solo>>].resp = OkResp(TRUE)
    /\ kvstore[Solo].store # EmptyStore

\* the stream ends inside the length prefix, or inside the payload that its
\* complete prefix announces
CutShort(segments) ==
    LET stream == Concat(segments)
    IN  /\ stream # << >>
        /\ \/ Len(stream) < 4
           \/ Len(stream) - 4 < FromBytes(SubSeq(stream, 1, 4))

\* C40 (framing errors): when the bytes that arrive on a connection end inside
\* the 4-byte length prefix, or before the payload the prefix announces is
\* complete, the read of them closes the connection: no reply is prepared, no
\* operation is dispatched, and the store and the WAL stay as they are.
C40_FramingErrors ==
    [][\A c \in Clients :
          (pc[c] = "idle" /\ socket[c] # Unframed /\ CutShort(socket[c])
             /\ socket'[c] # socket[c])
          => /\ pc'[c] = "closed"
             /\ resp'[c] = NoResp
             /\ store' = store
             /\ walFile' = walFile]_vars

====
